---- MODULE Spec2Model ----
(***************************************************************************)
(* A model of the ga.ipc package: the two key/value stores (SharedMemory   *)
(* over a multiprocessing manager, RedisSharedMemory over a Redis server)  *)
(* and the two publish/subscribe backends (WebSocketIPC with its own       *)
(* broker, RedisIPC).  Every definition is translated from the Python      *)
(* source, whose lines the comments cite.                                  *)
(*                                                                         *)
(* The module holds several specifications over one set of variables:      *)
(*   SpecLocal   callers of one SharedMemory instance                      *)
(*   SpecRedis   clients of one Redis server through RedisSharedMemory     *)
(*   SpecListen  the client side of the pub/sub backends: subscribe and    *)
(*               listen() of a WebSocketIPC or a RedisIPC instance         *)
(*   SpecProbe   running() of either pub/sub class against what answers    *)
(*               at the configured host and port                           *)
(*   SpecBroker  the WebSocket broker (handler and broadcast) with the     *)
(*               clients connected to it                                   *)
(*   SpecBuckets two store instances of one backend with distinct buckets, *)
(*               performing one operation at a time; SpecSameBucket is the *)
(*               same with both instances naming one bucket                *)
(*   SpecSerializer  Serializer.dumps and loads with every compression     *)
(*               method, in an environment with some libraries missing     *)
(*   SpecLifecycle  WebSocketIPC.init() with its server threads, and       *)
(*               RedisIPC.start() with stop(); SpecLifecycleLive adds the  *)
(*               fairness of the threads                                   *)
(*   SpecTwin    a WebSocketIPC and a RedisIPC listener with the same      *)
(*               callbacks, given the same messages                        *)
(*   SpecConn    one WebSocketIPC client whose listen() runs on a thread   *)
(*               while the main thread subscribes and publishes            *)
(*   SpecFacade  two IPC objects, each with a bucket, subscribing and      *)
(*               publishing on one pub/sub server                          *)
(*   SpecIter    an items() iteration of a store while another caller sets *)
(*               and deletes keys                                          *)
(*   SpecPair    a SharedMemory and a RedisSharedMemory instance with the  *)
(*               same bucket, given the same calls by one caller           *)
(* Each specification leaves the variables of the others unchanged.        *)
(***************************************************************************)
EXTENDS Integers, Sequences, FiniteSets, TLC

VARIABLES
    \* ---- key/value stores ----
    store,      \* _SharedKVStore._store / the Redis key space: full key -> bytes
    spc,        \* per caller: the proxy call its current operation makes next
    call        \* per caller: the setdefault call in progress or last returned

VARIABLES
    \* ---- one pub/sub client: subscribe and listen ----
    kind,           \* the client's class: "ws" (WebSocketIPC) or "redis" (RedisIPC)
    callbacks,      \* self.callbacks: channel -> list of callbacks (a defaultdict)
    inq,            \* inbound: frames the broker sent (ws), items of pubsub.listen() (redis)
    lpc,            \* listen(): "off", "listening", "returned" or "raised"
    inv,            \* the callback invocations listen() made for the last data message
    nerr,           \* errors logged by listen() (saturates at MaxLog)
    closedReads,    \* reads of listen() that failed on the closed connection (saturates)
    closed,         \* the client's connection is closed
    nArr,           \* messages published to the client so far
    nSub            \* subscribe calls so far

VARIABLES
    \* ---- running(): the health probe of either pub/sub class ----
    pkind,      \* the class whose running() is called: "ws" or "redis"
    peer,       \* what answers at the configured host and port
    ppc,        \* running(): "idle" (not in a call), "tcp", "connect", "send", "recv", "ping"
    presult,    \* the outcome of the last call: "none", "true", "false" or "raised"
    perr,       \* the exception the last call met, "none" when it met none
    pin,        \* frames the probe sent on its connection, not yet handled by the broker
    pout,       \* frames the broker sent on the probe's connection, not yet read
    nProbe      \* calls of running() so far

VARIABLES
    \* ---- the WebSocket broker and the connections of its clients ----
    cst,        \* per connection: "none" (not opened), "open" or "closed"
    entries,    \* the broker's clients dict: its keys in insertion order, 0 for a deleted entry
    chans,      \* the broker's clients dict: the channel set stored for each connection
    hpc,        \* per connection, its handler coroutine: "off", "recv", "send", "stalled" or "done"
    hres,       \* how the handler ended: "none", "closed" or "RuntimeError"
    bc,         \* per handler, the broadcast it is running
    c2s,        \* per connection, the frames sent by the client and not yet read by the handler
    s2c,        \* per connection, the frames the broker has sent to the client
    subRet,     \* per client, the channels of the subscribe calls that have returned
    owed,       \* pairs <<a, m>>: m was published after a's subscribe to its channel returned
    nLogged,    \* errors logged by broadcast
    nPub,       \* publish calls so far
    nOther,     \* ping and text frames sent by clients so far
    pubs        \* per message published: its publisher, its channel, and the connections
                \* subscribed to the channel when the handler took the publish frame

VARIABLES
    \* ---- store instances with their buckets, used one operation at a time ----
    bkind,      \* the backend: "local" (SharedMemory) or "redis" (RedisSharedMemory)
    bkt,        \* per store instance, its bucket (the empty sequence for None or "")
    space,      \* per key space, the dictionary full key -> bytes
    own,        \* per instance, the dictionary key -> value its own operations alone leave
    acted,      \* the instances that have performed an operation
    last        \* the last operation performed, with what it returned or raised

VARIABLES
    \* ---- Serializer.dumps and Serializer.loads in one environment ----
    installed,  \* the compression libraries that can be imported
    enc,        \* the last dumps call: its arguments and what it returned or raised
    dec         \* the last loads call since then, likewise

VARIABLES
    \* ---- bringing the backends up and down: WebSocketIPC.init/start and ----
    \* ---- RedisIPC.start/stop                                             ----
    lkind,          \* the class of the instance: "ws" or "redis"
    occupant,       \* what listens on the configured port: "none", "foreign" or "broker"
    threads,        \* the server threads start(blocking=False) made: "starting", "serving", "failed"
    ipc,            \* init(): "idle" (not in a call), "running" or "start"
    lastProbe,      \* what running() returned in the last init(): "none", "true", "false"
    nInit,          \* init() calls so far
    rpc,            \* RedisIPC.start(): "off", "sleep" (in the loop) or "returned"
    kill,           \* self.__kill
    stpc,           \* RedisIPC.stop(): "off", "close_pubsub", "close_client" or "done"
    pubsubClosed,   \* self.pubsub was closed
    clientClosed,   \* self.redis_client was closed
    wasLooping      \* the start loop was running when stop() was called

VARIABLES
    \* ---- a WebSocketIPC and a RedisIPC listener given the same callbacks ----
    \* ---- and the same messages                                           ----
    tcallbacks,     \* self.callbacks of both instances
    wsl,            \* the WebSocketIPC listener: its state and its calls for the last message
    rdl,            \* the RedisIPC listener, likewise
    nTSub,          \* subscribe calls so far
    nTMsg           \* messages delivered so far

VARIABLES
    \* ---- one WebSocketIPC client instance used by two threads ----
    _conn,      \* self._conn: 0 for None, else the connection it holds
    cpc,        \* per thread: "idle", "test", "connect", "return", "use" or "recv"
    cop,        \* per thread: the method it is in ("listen", "subscribe", "publish")
    got,        \* per thread: the connection self.conn returned to it (0 for none yet)
    nOpened,    \* connections opened by the instance so far
    subOn,      \* the connections on which a subscribe frame was sent
    pubOn,      \* the connections on which a publish frame was sent
    readOn,     \* the connections listen() has called recv() on
    nCalls      \* calls of subscribe and publish so far

VARIABLES
    \* ---- a SharedMemory and a RedisSharedMemory instance with the same bucket, ----
    \* ---- given the same calls by one caller                                   ----
    pbkt,       \* the bucket of both instances
    lsp,        \* the dictionary of the SharedMemory instance
    rsp,        \* the key space of the RedisSharedMemory instance
    lres,       \* what the last call returned or raised on the SharedMemory instance
    rres,       \* the same on the RedisSharedMemory instance
    pcall       \* the last call

VARIABLES
    \* ---- IPC objects with buckets of their own on one pub/sub server ----
    fbkt,       \* IPC object -> its bucket
    fcb,        \* IPC object -> self.ipc.callbacks
    finbox,     \* IPC object -> what the server sent to its client, not yet read
    fsub,       \* callback -> the IPC object and the channel it was subscribed with
    fdel,       \* the dispatches made: which callback got a message published where
    nFPub       \* publish calls made

VARIABLES
    \* ---- an items() iteration of a store while another caller writes ----
    ikind,      \* "local" (SharedMemory) or "redis" (RedisSharedMemory)
    idict,      \* the key space behind the store
    igen,        \* "idle" or "running": an items() generator is being consumed
    itodo,      \* the keys of the running scan not yet visited
    iheld,      \* user key -> the values stored under it during the running iteration
    iyielded,   \* the pairs the running iteration has yielded
    nIter,      \* items() calls made
    nIOps       \* calls of the other caller made

storeVars == <<store, spc, call>>

iterVars == <<ikind, idict, igen, itodo, iheld, iyielded, nIter, nIOps>>

facadeVars == <<fbkt, fcb, finbox, fsub, fdel, nFPub>>

pairVars == <<pbkt, lsp, rsp, lres, rres, pcall>>

connVars == <<_conn, cpc, cop, got, nOpened, subOn, pubOn, readOn, nCalls>>

twinVars == <<tcallbacks, wsl, rdl, nTSub, nTMsg>>

lifeVars == <<lkind, occupant, threads, ipc, lastProbe, nInit, rpc, kill, stpc,
              pubsubClosed, clientClosed, wasLooping>>

serVars == <<installed, enc, dec>>

bucketVars == <<bkind, bkt, space, own, acted, last>>

brokerVars == <<cst, entries, chans, hpc, hres, bc, c2s, s2c, subRet, owed,
                nLogged, nPub, nOther, pubs>>

probeVars == <<pkind, peer, ppc, presult, perr, pin, pout, nProbe>>

listenVars == <<kind, callbacks, inq, lpc, inv, nerr, closedReads, closed, nArr, nSub>>

vars == <<storeVars, listenVars, probeVars, brokerVars, bucketVars, serVars, lifeVars,
            twinVars, connVars, pairVars, facadeVars, iterVars>>

\* what the actions of one part leave alone
notStore == <<listenVars, probeVars, brokerVars, bucketVars, serVars, lifeVars,
            twinVars, connVars, pairVars, facadeVars, iterVars>>

notListen == <<storeVars, probeVars, brokerVars, bucketVars, serVars, lifeVars,
            twinVars, connVars, pairVars, facadeVars, iterVars>>

notProbe == <<storeVars, listenVars, brokerVars, bucketVars, serVars, lifeVars,
            twinVars, connVars, pairVars, facadeVars, iterVars>>

notBroker == <<storeVars, listenVars, probeVars, bucketVars, serVars, lifeVars,
            twinVars, connVars, pairVars, facadeVars, iterVars>>

notBucket == <<storeVars, listenVars, probeVars, brokerVars, serVars, lifeVars,
            twinVars, connVars, pairVars, facadeVars, iterVars>>

notSer == <<storeVars, listenVars, probeVars, brokerVars, bucketVars, lifeVars,
            twinVars, connVars, pairVars, facadeVars, iterVars>>

notLife == <<storeVars, listenVars, probeVars, brokerVars, bucketVars, serVars,
            twinVars, connVars, pairVars, facadeVars, iterVars>>

notTwin == <<storeVars, listenVars, probeVars, brokerVars, bucketVars, serVars,
            lifeVars, connVars, pairVars, facadeVars, iterVars>>

notConn == <<storeVars, listenVars, probeVars, brokerVars, bucketVars, serVars, lifeVars,
             twinVars, pairVars, facadeVars, iterVars>>

notPair == <<storeVars, listenVars, probeVars, brokerVars, bucketVars, serVars, lifeVars,
             twinVars, connVars, facadeVars, iterVars>>

notFacade == <<storeVars, listenVars, probeVars, brokerVars, bucketVars, serVars, lifeVars,
               twinVars, connVars, pairVars, iterVars>>

notIter == <<storeVars, listenVars, probeVars, brokerVars, bucketVars, serVars, lifeVars,
             twinVars, connVars, pairVars, facadeVars>>

(***************************************************************************)
(* Bounds and value sets                                                   *)
(***************************************************************************)
NCallers == 2

Callers == 1..NCallers

\* Keys are sequences of characters, so that a bucket prefix is a real prefix.
Keys == {<<"x">>, <<"y">>}

Values == {"v1", "v2"}

None == "None"

\* the defaults a caller passes to get and pop
Defaults == {"d"}

Bucket == <<"A">>

(***************************************************************************)
(* Serializer (compression None): bytes are a pickle of the value.         *)
(***************************************************************************)
NoData == [none |-> TRUE]

pickle_dumps(v) == [pkl |-> v]

pickle_loads(d) == d.pkl

\* Serializer.dumps(x, compression=None)
dumps(v) == pickle_dumps(v)

\* Serializer.loads: None (or empty) data is returned unchanged
loads(d) == IF d = NoData THEN None ELSE pickle_loads(d)

(***************************************************************************)
(* Bucket prefixing                                                        *)
(***************************************************************************)
\* self.prefix = f"{bucket}:" if bucket else ""
BucketPrefix(b) == IF b # <<>> THEN b \o <<":">> ELSE <<>>

prefix == BucketPrefix(Bucket)

_key(key) == prefix \o key

\* key.startswith(pre)
StartsWith(key, pre) == Len(key) >= Len(pre) /\ SubSeq(key, 1, Len(pre)) = pre

\* _key_in_bucket: key.startswith(self.prefix) if self.bucket else True
_key_in_bucket(b, key) == IF b # <<>> THEN StartsWith(key, BucketPrefix(b)) ELSE TRUE

\* _key_without_bucket: key[len(self.prefix):] if key.startswith(self.prefix) else key
_key_without_bucket(b, key) ==
    IF StartsWith(key, BucketPrefix(b))
    THEN SubSeq(key, Len(BucketPrefix(b)) + 1, Len(key)) ELSE key

\* the position of the "]" that closes the class a pattern begins with, 0
\* when the pattern does not begin with a class
ClassEnd(pat) ==
    LET ends == {i \in 3..Len(pat) : pat[i] = "]"}
    IN  IF pat = <<>> \/ Head(pat) # "[" \/ ends = {} THEN 0
        ELSE CHOOSE i \in ends : \A j \in ends : i <= j

\* the glob match of the Redis commands KEYS and SCAN: "*" stands for any
\* run of characters, "?" for any one character, "[...]" for any one of the
\* characters between the brackets, the rest for itself
RECURSIVE GlobMatch(_, _)
GlobMatch(pat, key) ==
    IF pat = <<>> THEN key = <<>>
    ELSE IF Head(pat) = "*"
         THEN GlobMatch(Tail(pat), key) \/ (key # <<>> /\ GlobMatch(pat, Tail(key)))
    ELSE IF ClassEnd(pat) # 0
         THEN /\ key # <<>>
              /\ Head(key) \in {pat[i] : i \in 2..(ClassEnd(pat) - 1)}
              /\ GlobMatch(SubSeq(pat, ClassEnd(pat) + 1, Len(pat)), Tail(key))
         ELSE /\ key # <<>>
              /\ Head(pat) = "?" \/ Head(pat) = Head(key)
              /\ GlobMatch(Tail(pat), Tail(key))

(***************************************************************************)
(* The shared dictionary: one proxy call (or one Redis command) is atomic. *)
(***************************************************************************)
has_key(s, k) == k \in DOMAIN s

kv_get(s, k) == IF k \in DOMAIN s THEN s[k] ELSE NoData

kv_set(s, k, d) == [x \in DOMAIN s \cup {k} |-> IF x = k THEN d ELSE s[x]]

kv_delete(s, k) == [x \in DOMAIN s \ {k} |-> s[x]]

EmptyStore == [x \in {} |-> NoData]

NoCall == [op |-> "none"]

\* The callers whose setdefault on full key k is in progress or was the last
\* thing they did see their record marked when the key is written otherwise.
Disturb(c, k, p) ==
    [q \in Callers |->
        IF q # p /\ c[q].op = "setdefault" /\ _key(c[q].key) = k
        THEN [c[q] EXCEPT !.dirty = TRUE] ELSE c[q]]

\* The same for the callers whose pop of full key k is past its first command.
DisturbPops(c, k, p) ==
    [q \in Callers |->
        IF q # p /\ c[q].op = "pop" /\ _key(c[q].key) = k
        THEN [c[q] EXCEPT !.dirty = TRUE] ELSE c[q]]

StoreInit ==
    /\ store = EmptyStore
    /\ spc = [p \in Callers |-> "idle"]
    /\ call = [p \in Callers |-> NoCall]

(***************************************************************************)
(* Operations common to both stores: one command each.                     *)
(***************************************************************************)
\* set(key, value): client.set(_key(key), dumps(value))
Set(p, k, v) ==
    /\ UNCHANGED notStore
    /\ spc[p] = "idle"
    /\ store' = kv_set(store, _key(k), dumps(v))
    /\ call' = [DisturbPops(Disturb(call, _key(k), p), _key(k), p) EXCEPT ![p] = NoCall]
    /\ UNCHANGED spc

\* delete(key): client.delete(_key(key))
Delete(p, k) ==
    /\ UNCHANGED notStore
    /\ spc[p] = "idle"
    /\ store' = kv_delete(store, _key(k))
    /\ call' = [DisturbPops(Disturb(call, _key(k), p), _key(k), p) EXCEPT ![p] = NoCall]
    /\ UNCHANGED spc

\* get(key, default) of both classes: has_key (EXISTS) on the prefixed key,
\* and the default when it is not there
GetExists(p, k, d) ==
    /\ UNCHANGED notStore
    /\ spc[p] = "idle"
    /\ LET present == has_key(store, _key(k))
       IN  /\ spc' = [spc EXCEPT ![p] = IF present THEN "get_get" ELSE "idle"]
           /\ call' = [call EXCEPT ![p] =
                         [op |-> "get", key |-> k, default |-> d,
                          done |-> ~present, ret |-> IF present THEN None ELSE d]]
    /\ UNCHANGED store

\* data = client.get(...); return loads(data)
GetGet(p) ==
    /\ UNCHANGED notStore
    /\ spc[p] = "get_get"
    /\ call' = [call EXCEPT ![p].ret = loads(kv_get(store, _key(call[p].key))),
                            ![p].done = TRUE]
    /\ spc' = [spc EXCEPT ![p] = "idle"]
    /\ UNCHANGED store

(***************************************************************************)
(* SharedMemory.setdefault: has_key, then get, or dumps/set/loads          *)
(***************************************************************************)
\* the branch taken after client.has_key(...)
LocalSetdefaultBranch(present) == IF present THEN "sd_get" ELSE "sd_set"

LocalSetdefaultHasKey(p, k, v) ==
    /\ UNCHANGED notStore
    /\ spc[p] = "idle"
    /\ spc' = [spc EXCEPT ![p] = LocalSetdefaultBranch(has_key(store, _key(k)))]
    /\ call' = [call EXCEPT ![p] =
                  [op |-> "setdefault", key |-> k, value |-> v,
                   absent0 |-> ~has_key(store, _key(k)), dirty |-> FALSE,
                   overwrote |-> FALSE, done |-> FALSE, ret |-> None]]
    /\ UNCHANGED store

LocalSetdefaultGet(p) ==
    /\ UNCHANGED notStore
    /\ spc[p] = "sd_get"
    /\ call' = [call EXCEPT ![p].ret = loads(kv_get(store, _key(call[p].key))),
                            ![p].done = TRUE]
    /\ spc' = [spc EXCEPT ![p] = "idle"]
    /\ UNCHANGED store

LocalSetdefaultSet(p) ==
    /\ UNCHANGED notStore
    /\ spc[p] = "sd_set"
    /\ LET data == dumps(call[p].value)
       IN  /\ store' = kv_set(store, _key(call[p].key), data)
           /\ call' = [DisturbPops(call, _key(call[p].key), p) EXCEPT
                         ![p].ret = loads(data),
                         ![p].done = TRUE,
                         ![p].overwrote = has_key(store, _key(call[p].key))]
    /\ spc' = [spc EXCEPT ![p] = "idle"]

(***************************************************************************)
(* SharedMemory.pop: one proxy call, client.pop, which the manager's       *)
(* server runs as self._store.pop(key, None)                               *)
(***************************************************************************)
\* a pop that returns the data and leaves the key
PopLeavesKey(s, k) == [store |-> s, data |-> kv_get(s, k)]

\* _SharedKVStore.pop: return self._store.pop(key, None)
kv_pop(s, k) == [store |-> kv_delete(s, k), data |-> kv_get(s, k)]

\* data = self.client.pop(self._key(key));
\* return self.__loads(data) if data is not None else None
LocalPop(p, k) ==
    /\ UNCHANGED notStore
    /\ spc[p] = "idle"
    /\ LET r == kv_pop(store, _key(k))
       IN  /\ store' = r.store
           /\ call' = [Disturb(call, _key(k), p) EXCEPT ![p] =
                         [op |-> "pop", key |-> k, default |-> None,
                          present0 |-> has_key(store, _key(k)), dirty |-> FALSE,
                          data |-> r.data, done |-> TRUE,
                          ret |-> IF r.data # NoData THEN loads(r.data) ELSE None]]
    /\ UNCHANGED spc

LocalNext ==
    \E p \in Callers :
        \/ \E k \in Keys : LocalPop(p, k)
        \/ \E k \in Keys, v \in Values : Set(p, k, v)
        \/ \E k \in Keys : Delete(p, k)
        \/ \E k \in Keys, v \in Values : LocalSetdefaultHasKey(p, k, v)
        \/ LocalSetdefaultGet(p)
        \/ LocalSetdefaultSet(p)
        \/ \E k \in Keys, d \in Defaults : GetExists(p, k, d)
        \/ GetGet(p)

(***************************************************************************)
(* RedisSharedMemory.setdefault: EXISTS, GET, SET                          *)
(***************************************************************************)
RedisSetdefaultExists(p, k, v) ==
    /\ UNCHANGED notStore
    /\ spc[p] = "idle"
    /\ spc' = [spc EXCEPT ![p] = IF has_key(store, _key(k)) THEN "sd_get" ELSE "sd_set"]
    /\ call' = [call EXCEPT ![p] =
                  [op |-> "setdefault", key |-> k, value |-> v,
                   absent0 |-> ~has_key(store, _key(k)), dirty |-> FALSE,
                   overwrote |-> FALSE, done |-> FALSE, ret |-> None]]
    /\ UNCHANGED store

\* existing = client.get(k); if existing is not None: return loads(existing)
RedisSetdefaultGet(p) ==
    /\ UNCHANGED notStore
    /\ spc[p] = "sd_get"
    /\ LET existing == kv_get(store, _key(call[p].key))
       IN  IF existing # NoData
           THEN /\ call' = [call EXCEPT ![p].ret = loads(existing), ![p].done = TRUE]
                /\ spc' = [spc EXCEPT ![p] = "idle"]
           ELSE /\ spc' = [spc EXCEPT ![p] = "sd_set"]
                /\ UNCHANGED call
    /\ UNCHANGED store

\* client.set(k, dumps(default)); return default
RedisSetdefaultSet(p) ==
    /\ UNCHANGED notStore
    /\ spc[p] = "sd_set"
    /\ store' = kv_set(store, _key(call[p].key), dumps(call[p].value))
    /\ call' = [DisturbPops(call, _key(call[p].key), p) EXCEPT
                  ![p].ret = call[p].value,
                  ![p].done = TRUE,
                  ![p].overwrote = has_key(store, _key(call[p].key))]
    /\ spc' = [spc EXCEPT ![p] = "idle"]

(***************************************************************************)
(* RedisSharedMemory.__getitem__: EXISTS, then GET, or KeyError            *)
(***************************************************************************)
RedisGetitemExists(p, k) ==
    /\ UNCHANGED notStore
    /\ spc[p] = "idle"
    /\ LET present == has_key(store, _key(k))
       IN  /\ spc' = [spc EXCEPT ![p] = IF present THEN "gi_get" ELSE "idle"]
           /\ call' = [call EXCEPT ![p] =
                         [op |-> "getitem", key |-> k, done |-> ~present,
                          raised |-> IF present THEN "none" ELSE "KeyError",
                          ret |-> None]]
    /\ UNCHANGED store

RedisGetitemGet(p) ==
    /\ UNCHANGED notStore
    /\ spc[p] = "gi_get"
    /\ call' = [call EXCEPT ![p].ret = loads(kv_get(store, _key(call[p].key))),
                            ![p].done = TRUE]
    /\ spc' = [spc EXCEPT ![p] = "idle"]
    /\ UNCHANGED store

(***************************************************************************)
(* RedisSharedMemory.pop: self.get(key, default), which is EXISTS and GET, *)
(* then DEL                                                                *)
(***************************************************************************)
RedisPopExists(p, k, d) ==
    /\ UNCHANGED notStore
    /\ spc[p] = "idle"
    /\ LET present == has_key(store, _key(k))
       IN  /\ spc' = [spc EXCEPT ![p] = IF present THEN "pop_get" ELSE "pop_del"]
           /\ call' = [call EXCEPT ![p] =
                         [op |-> "pop", key |-> k, default |-> d,
                          present0 |-> present, dirty |-> FALSE,
                          data |-> IF present THEN None ELSE d,
                          done |-> FALSE, ret |-> None]]
    /\ UNCHANGED store

RedisPopGet(p) ==
    /\ UNCHANGED notStore
    /\ spc[p] = "pop_get"
    /\ call' = [call EXCEPT ![p].data = loads(kv_get(store, _key(call[p].key)))]
    /\ spc' = [spc EXCEPT ![p] = "pop_del"]
    /\ UNCHANGED store

\* client.delete(_key(key)); return data
RedisPopDelete(p) ==
    /\ UNCHANGED notStore
    /\ spc[p] = "pop_del"
    /\ store' = kv_delete(store, _key(call[p].key))
    /\ call' = [Disturb(call, _key(call[p].key), p) EXCEPT
                  ![p].ret = call[p].data, ![p].done = TRUE]
    /\ spc' = [spc EXCEPT ![p] = "idle"]

RedisNext ==
    \E p \in Callers :
        \/ \E k \in Keys, v \in Values : Set(p, k, v)
        \/ \E k \in Keys : Delete(p, k)
        \/ \E k \in Keys, v \in Values : RedisSetdefaultExists(p, k, v)
        \/ RedisSetdefaultGet(p)
        \/ RedisSetdefaultSet(p)
        \/ \E k \in Keys, d \in Defaults : GetExists(p, k, d)
        \/ GetGet(p)
        \/ \E k \in Keys : RedisGetitemExists(p, k)
        \/ RedisGetitemGet(p)
        \/ \E k \in Keys, d \in Defaults : RedisPopExists(p, k, d)
        \/ RedisPopGet(p)
        \/ RedisPopDelete(p)

(***************************************************************************)
(* Serializer.dumps and Serializer.loads with a compression method.  The   *)
(* compression level is the default one.  Bytes are records: a pickle      *)
(* [pkl |-> v], a compressed payload [z |-> method, of |-> bytes], the     *)
(* empty bytes, or NoData for None.  What loads returns is a record too:   *)
(* [val |-> v] for a decoded object, or the data it was given.             *)
(***************************************************************************)
EmptyBytes == [empty |-> TRUE]

\* the modules the two functions import
Libs == {"blosc", "gzip", "bz2", "zipfile", "lzma", "snappy"}

\* the methods the assert statement admits
CompressionMethods ==
    {None, "blosclz", "lz4", "lz4hc", "snappy", "zlib", "zstd", "gzip", "bz2", "zip",
     "lzma"}

\* a method the assert statement does not admit
UnknownMethods == {"invalid_method"}

\* the module imported for a method
LibraryOf(m) ==
    CASE m \in {"blosclz", "lz4", "lz4hc", "zlib", "zstd"} -> "blosc"
      [] m = "gzip" -> "gzip"
      [] m = "bz2" -> "bz2"
      [] m = "zip" -> "zipfile"
      [] m = "lzma" -> "lzma"
      [] m = "snappy" -> "snappy"

\* imports that never fail
NoFallback(m, inst) == m

\* the if/elif chain of try: import ... except ImportError: compression = None
Fallback(m, inst) ==
    IF m # None /\ LibraryOf(m) \in inst THEN m ELSE None

\* blosc.compress, gzip.compress, bz2.compress, the ZipFile write,
\* lzma.compress, snappy.compress
Compress(m, pickled) == [z |-> m, of |-> pickled]

\* the matching decompress: it accepts the payload of its own method only
CanDecompress(m, data) == "z" \in DOMAIN data /\ data.z = m

Decompress(m, data) == data.of

SerOutcome(exc, value, w) == [raised |-> exc, ret |-> value, warned |-> w]

\* a dumps that compresses nothing
DumpsUncompressed(v, m, inst) ==
    IF m \notin CompressionMethods
    THEN SerOutcome("AssertionError", NoData, FALSE)
    ELSE SerOutcome("none", pickle_dumps(v), Fallback(m, inst) # m)

\* Serializer.dumps(v, compression=m)
Serializer_dumps(v, m, inst) ==
    IF m \notin CompressionMethods
    THEN SerOutcome("AssertionError", NoData, FALSE)
    ELSE LET c == Fallback(m, inst)
         IN  SerOutcome("none",
                        IF c = None THEN pickle_dumps(v) ELSE Compress(c, pickle_dumps(v)),
                        c # m)

\* the decompress and pickle.loads of loads, for the method c left by the
\* imports
Decode(data, c, w) ==
    IF c = None
    THEN IF "pkl" \in DOMAIN data
         THEN SerOutcome("none", [val |-> pickle_loads(data)], w)
         ELSE SerOutcome("UnpicklingError", NoData, w)
    ELSE IF CanDecompress(c, data)
         THEN SerOutcome("none", [val |-> pickle_loads(Decompress(c, data))], w)
         ELSE SerOutcome("DecompressError", NoData, w)

\* a loads that tests the data before the method
LoadsTestsDataFirst(data, m, inst) ==
    IF data = NoData \/ data = EmptyBytes
    THEN SerOutcome("none", data, FALSE)
    ELSE IF m \notin CompressionMethods
         THEN SerOutcome("AssertionError", NoData, FALSE)
         ELSE Decode(data, Fallback(m, inst), Fallback(m, inst) # m)

\* a loads with no test of the data
LoadsDecodesAll(data, m, inst) ==
    IF m \notin CompressionMethods
    THEN SerOutcome("AssertionError", NoData, FALSE)
    ELSE Decode(data, Fallback(m, inst), Fallback(m, inst) # m)

\* Serializer.loads(data, compression=m)
Serializer_loads(data, m, inst) ==
    IF m \notin CompressionMethods
    THEN SerOutcome("AssertionError", NoData, FALSE)
    ELSE LET c == Fallback(m, inst)
         IN  IF data = NoData \/ data = EmptyBytes
             THEN SerOutcome("none", data, c # m)
             ELSE Decode(data, c, c # m)

NoSerCall == [op |-> "none"]

SerInit ==
    /\ installed \in SUBSET Libs
    /\ enc = NoSerCall
    /\ dec = NoSerCall

SerDumps(v, m) ==
    /\ UNCHANGED notSer
    /\ enc' = [op |-> "dumps", value |-> v, method |-> m,
               out |-> Serializer_dumps(v, m, installed)]
    /\ dec' = NoSerCall
    /\ UNCHANGED installed

\* what a caller passes to loads: None, empty bytes, or what dumps returned
LoadInputs == {NoData, EmptyBytes} \cup
              (IF enc.op = "dumps" /\ enc.out.raised = "none" THEN {enc.out.ret} ELSE {})

SerLoads(data, m) ==
    /\ UNCHANGED notSer
    /\ dec' = [op |-> "loads", data |-> data, method |-> m,
               out |-> Serializer_loads(data, m, installed)]
    /\ UNCHANGED <<installed, enc>>

SerNext ==
    \/ \E v \in Values, m \in CompressionMethods \cup UnknownMethods : SerDumps(v, m)
    \/ \E data \in LoadInputs, m \in CompressionMethods \cup UnknownMethods :
          SerLoads(data, m)

(***************************************************************************)
(* Bringing the backends up and down.  WebSocketIPC.init() starts the      *)
(* broker on a daemon thread when running() is false; the thread serves    *)
(* once websockets.serve has bound the port, which fails when the port is  *)
(* taken.  RedisIPC.start(blocking=True) sleeps in a loop until stop()     *)
(* has set self.__kill.                                                    *)
(***************************************************************************)
MaxInit == 4

\* what can hold the port when the instance is made
Occupants == {"none", "foreign", "broker"}

\* running(): true when a broker of this class answers on the port
Running(occ) == occ = "broker"

\* a stop() that leaves the flag alone
KillLeftAlone == FALSE

\* self.__kill = True
KillAfterStop == TRUE

\* a bind that succeeds whoever holds the port
BindAnyway(occ) == TRUE

\* websockets.serve binds host and port: the port must be free
CanBind(occ) == occ = "none"

LifeInit ==
    /\ lkind \in {"ws", "redis"}
    /\ occupant \in (IF lkind = "ws" THEN Occupants ELSE {"none"})
    /\ threads = <<>>
    /\ ipc = "idle"
    /\ lastProbe = "none"
    /\ nInit = 0
    /\ rpc = "off"
    /\ kill = FALSE
    /\ stpc = "off"
    /\ pubsubClosed = FALSE
    /\ clientClosed = FALSE
    /\ wasLooping = FALSE

\* init() is called
InitCall ==
    /\ UNCHANGED notLife
    /\ lkind = "ws" /\ ipc = "idle" /\ nInit < MaxInit
    /\ ipc' = "running"
    /\ nInit' = nInit + 1
    /\ UNCHANGED <<lkind, occupant, threads, lastProbe, rpc, kill, stpc, pubsubClosed,
                   clientClosed, wasLooping>>

\* if not self.running()
InitRunning ==
    /\ UNCHANGED notLife
    /\ ipc = "running"
    /\ lastProbe' = IF Running(occupant) THEN "true" ELSE "false"
    /\ ipc' = IF Running(occupant) THEN "idle" ELSE "start"
    /\ UNCHANGED <<lkind, occupant, threads, nInit, rpc, kill, stpc, pubsubClosed,
                   clientClosed, wasLooping>>

\* self.start(blocking=False): threading.Thread(target=run_asyncio, daemon=True).start()
InitStart ==
    /\ UNCHANGED notLife
    /\ ipc = "start"
    /\ threads' = Append(threads, "starting")
    /\ ipc' = "idle"
    /\ UNCHANGED <<lkind, occupant, lastProbe, nInit, rpc, kill, stpc, pubsubClosed,
                   clientClosed, wasLooping>>

\* the thread runs asyncio.run(fn()): websockets.serve(...) binds and serves,
\* or raises OSError and the thread ends
ServeBinds(t) ==
    /\ UNCHANGED notLife
    /\ threads[t] = "starting"
    /\ IF CanBind(occupant)
       THEN threads' = [threads EXCEPT ![t] = "serving"] /\ occupant' = "broker"
       ELSE threads' = [threads EXCEPT ![t] = "failed"] /\ UNCHANGED occupant
    /\ UNCHANGED <<lkind, ipc, lastProbe, nInit, rpc, kill, stpc, pubsubClosed,
                   clientClosed, wasLooping>>

\* RedisIPC.start(blocking)
RedisStart(blocking) ==
    /\ UNCHANGED notLife
    /\ lkind = "redis" /\ rpc = "off"
    /\ rpc' = IF blocking THEN "sleep" ELSE "returned"
    /\ UNCHANGED <<lkind, occupant, threads, ipc, lastProbe, nInit, kill, stpc,
                   pubsubClosed, clientClosed, wasLooping>>

\* one turn of the loop: time.sleep(1); if self.__kill: break
RedisStartTurn ==
    /\ UNCHANGED notLife
    /\ rpc = "sleep"
    /\ rpc' = IF kill THEN "returned" ELSE "sleep"
    /\ UNCHANGED <<lkind, occupant, threads, ipc, lastProbe, nInit, kill, stpc,
                   pubsubClosed, clientClosed, wasLooping>>

\* stop(): self.__kill = True
RedisStopKill ==
    /\ UNCHANGED notLife
    /\ lkind = "redis" /\ stpc = "off"
    /\ kill' = KillAfterStop
    /\ wasLooping' = (rpc = "sleep")
    /\ stpc' = "close_pubsub"
    /\ UNCHANGED <<lkind, occupant, threads, ipc, lastProbe, nInit, rpc, pubsubClosed,
                   clientClosed>>

\* self.pubsub.close()
RedisStopClosePubsub ==
    /\ UNCHANGED notLife
    /\ stpc = "close_pubsub"
    /\ pubsubClosed' = TRUE
    /\ stpc' = "close_client"
    /\ UNCHANGED <<lkind, occupant, threads, ipc, lastProbe, nInit, rpc, kill,
                   clientClosed, wasLooping>>

\* self.redis_client.close()
RedisStopCloseClient ==
    /\ UNCHANGED notLife
    /\ stpc = "close_client"
    /\ clientClosed' = TRUE
    /\ stpc' = "done"
    /\ UNCHANGED <<lkind, occupant, threads, ipc, lastProbe, nInit, rpc, kill,
                   pubsubClosed, wasLooping>>

LifeNext ==
    \/ InitCall
    \/ InitRunning
    \/ InitStart
    \/ \E t \in 1..Len(threads) : ServeBinds(t)
    \/ \E blocking \in BOOLEAN : RedisStart(blocking)
    \/ RedisStartTurn
    \/ RedisStopKill
    \/ RedisStopClosePubsub
    \/ RedisStopCloseClient

(***************************************************************************)
(* Store instances with buckets.  Every operation is a function of the     *)
(* dictionary s it works on and of the bucket b of the instance: it gives  *)
(* the dictionary it leaves and what it returns or raises.  The commands   *)
(* of one operation run with no other caller in between.                   *)
(***************************************************************************)
Buckets == {<<>>, <<"a">>, <<"a", ":", "b">>, <<"?">>}

UserKeys == {<<"k">>, <<"b", ":", "k">>}

Returned(s, v) == [dict |-> s, raised |-> "none", ret |-> v]

Raised(s, exc) == [dict |-> s, raised |-> exc, ret |-> None]

\* SharedMemory.set and RedisSharedMemory.set
StoreSetOp(s, b, k, v) == Returned(kv_set(s, BucketPrefix(b) \o k, dumps(v)), None)

\* a delete that removes nothing
DeleteKeepsKey(s, b, k) == Returned(s, None)

\* SharedMemory.delete and RedisSharedMemory.delete
StoreDeleteOp(s, b, k) == Returned(kv_delete(s, BucketPrefix(b) \o k), None)

\* SharedMemory.get and RedisSharedMemory.get: has_key (EXISTS), then get
\* (GET) and loads, else the default
StoreGetOp(s, b, k, d) ==
    IF has_key(s, BucketPrefix(b) \o k)
    THEN Returned(s, loads(kv_get(s, BucketPrefix(b) \o k)))
    ELSE Returned(s, d)

\* SharedMemory.__getitem__: get, KeyError when the data is None
LocalGetitemOp(s, b, k) ==
    LET data == kv_get(s, BucketPrefix(b) \o k)
    IN  IF data = NoData THEN Raised(s, "KeyError") ELSE Returned(s, loads(data))

\* RedisSharedMemory.__getitem__: EXISTS, then GET and loads, else KeyError
RedisGetitemOp(s, b, k) ==
    IF has_key(s, BucketPrefix(b) \o k)
    THEN Returned(s, loads(kv_get(s, BucketPrefix(b) \o k)))
    ELSE Raised(s, "KeyError")

\* __contains__ of both classes
StoreContainsOp(s, b, k) == Returned(s, has_key(s, BucketPrefix(b) \o k))

\* a setdefault that stores its value whatever the key holds
SetdefaultAlwaysStores(s, b, k, v) ==
    Returned(kv_set(s, BucketPrefix(b) \o k, dumps(v)), loads(dumps(v)))

\* SharedMemory.setdefault
LocalSetdefaultOp(s, b, k, v) ==
    IF has_key(s, BucketPrefix(b) \o k)
    THEN Returned(s, loads(kv_get(s, BucketPrefix(b) \o k)))
    ELSE Returned(kv_set(s, BucketPrefix(b) \o k, dumps(v)), loads(dumps(v)))

\* RedisSharedMemory.setdefault
RedisSetdefaultOp(s, b, k, default) ==
    IF has_key(s, BucketPrefix(b) \o k) /\ kv_get(s, BucketPrefix(b) \o k) # NoData
    THEN Returned(s, loads(kv_get(s, BucketPrefix(b) \o k)))
    ELSE Returned(kv_set(s, BucketPrefix(b) \o k, dumps(default)), default)

\* SharedMemory.pop(key): client.pop, loads unless the data is None
LocalPopOp(s, b, k) ==
    LET data == kv_get(s, BucketPrefix(b) \o k)
    IN  Returned(kv_delete(s, BucketPrefix(b) \o k),
                 IF data # NoData THEN loads(data) ELSE None)

\* RedisSharedMemory.pop(key, default): self.get, then DEL
RedisPopOp(s, b, k, default) ==
    Returned(kv_delete(s, BucketPrefix(b) \o k), StoreGetOp(s, b, k, default).ret)

\* the dictionary without the keys of a set
kv_delete_all(s, ks) == [x \in DOMAIN s \ ks |-> s[x]]

\* clear() with no test of the bucket
ClearWhateverBucket(s, b) ==
    Returned(kv_delete_all(s, {x \in DOMAIN s : _key_in_bucket(b, x)}), None)

\* SharedMemory.clear
LocalClearOp(s, b) ==
    IF b # <<>>
    THEN Returned(kv_delete_all(s, {x \in DOMAIN s : _key_in_bucket(b, x)}), None)
    ELSE Raised(s, "ValueError")

\* RedisSharedMemory.clear: KEYS prefix*, then DEL of what it gave
RedisClearOp(s, b) ==
    IF b # <<>>
    THEN Returned(kv_delete_all(s, {x \in DOMAIN s :
                                      GlobMatch(BucketPrefix(b) \o <<"*">>, x)}), None)
    ELSE Raised(s, "ValueError")

\* SharedMemory.scan_iter with no match: the keys of client.keys() that are
\* in the bucket, without the prefix
LocalScan(s, b) == {_key_without_bucket(b, x) : x \in {y \in DOMAIN s : _key_in_bucket(b, y)}}

\* the patterns a caller passes to scan_iter
Patterns == {<<"k">>, <<"*">>, <<"b", ":", "*">>, <<"?">>}

\* SharedMemory.scan_iter(match): fnmatch is fnmatchcase(name, pat), called as
\* fnmatch(match, k) with k the full key of client.keys()
LocalScanIter(s, b, match) ==
    {_key_without_bucket(b, x) :
        x \in {y \in DOMAIN s : _key_in_bucket(b, y) /\ GlobMatch(y, match)}}

\* the pattern of keys, values and items of RedisSharedMemory
ScanPattern(b) == IF b # <<>> THEN BucketPrefix(b) \o <<"*">> ELSE <<"*">>

\* client.scan_iter(match=pattern)
RedisScan(s, b) == {x \in DOMAIN s : GlobMatch(ScanPattern(b), x)}

\* keys() of either class, as the set of what it yields
LocalKeys(s, b) == LocalScan(s, b)

RedisKeys(s, b) == {_key_without_bucket(b, x) : x \in RedisScan(s, b)}

\* items(): SharedMemory yields (key, self.get(key)); RedisSharedMemory
\* reads the full key and skips the keys whose data is None
LocalItems(s, b) == {<<k, StoreGetOp(s, b, k, None).ret>> : k \in LocalScan(s, b)}

RedisItems(s, b) ==
    {<<_key_without_bucket(b, x), loads(kv_get(s, x))>> :
        x \in {y \in RedisScan(s, b) : kv_get(s, y) # NoData}}

\* values()
LocalValues(s, b) == {StoreGetOp(s, b, k, None).ret : k \in LocalScan(s, b)}

RedisValues(s, b) ==
    {loads(kv_get(s, x)) : x \in {y \in RedisScan(s, b) : kv_get(s, y) # NoData}}

\* the public methods the two store classes define
LocalMethods ==
    {"set", "setdefault", "get", "pop", "delete", "clear", "keys", "values", "items",
     "scan_iter"}

RedisMethods ==
    {"set", "setdefault", "get", "pop", "delete", "clear", "keys", "values", "items"}

Methods(backend) == IF backend = "local" THEN LocalMethods ELSE RedisMethods

\* the methods of self.shdmem that IPC.set, get, delete, clear, keys and
\* scan_iter call
FacadeOps == {"set", "get", "delete", "clear", "keys", "scan_iter"}

\* a call of method name on the store of the backend: the attribute lookup fails
\* when the class does not define it
MethodCall(backend, name, s) ==
    IF name \in Methods(backend) THEN Returned(s, None) ELSE Raised(s, "AttributeError")

\* the two store instances
Stores == {"A", "B"}

\* Every SharedMemory instance starts a manager of its own (__init__, lines
\* 196-200) and so has a dictionary of its own; the RedisSharedMemory
\* instances of one host, port and db work on one key space.
SpaceOf(i) == IF bkind = "local" THEN i ELSE "A"

EmptyDict == [x \in {} |-> None]

dict_set(d, k, v) == [x \in DOMAIN d \cup {k} |-> IF x = k THEN v ELSE d[x]]

dict_del(d, k) == [x \in DOMAIN d \ {k} |-> d[x]]

BucketInit ==
    /\ bkind \in {"local", "redis"}
    /\ bkt \in {f \in [Stores -> Buckets] : f["A"] # f["B"]}
    /\ space = [i \in Stores |-> EmptyStore]
    /\ own = [i \in Stores |-> EmptyDict]
    /\ acted = {}
    /\ last = [store |-> "A", op |-> "none", key |-> <<>>, arg |-> None,
               raised |-> "none", ret |-> None]

\* instance i has performed op on key k with argument a and outcome r; d is
\* what its own operations alone leave under its keys
Performed(i, op, k, a, r, d) ==
    /\ space' = [space EXCEPT ![SpaceOf(i)] = r.dict]
    /\ own' = [own EXCEPT ![i] = d]
    /\ acted' = acted \cup {i}
    /\ last' = [store |-> i, op |-> op, key |-> k, arg |-> a,
                raised |-> r.raised, ret |-> r.ret]
    /\ UNCHANGED <<bkind, bkt>>

StoreSet(i, k, v) ==
    /\ UNCHANGED notBucket
    /\ Performed(i, "set", k, v, StoreSetOp(space[SpaceOf(i)], bkt[i], k, v),
                 dict_set(own[i], k, v))

StoreSetdefault(i, k, v) ==
    /\ UNCHANGED notBucket
    /\ Performed(i, "setdefault", k, v,
                 IF bkind = "local" THEN LocalSetdefaultOp(space[SpaceOf(i)], bkt[i], k, v)
                 ELSE RedisSetdefaultOp(space[SpaceOf(i)], bkt[i], k, v),
                 IF k \in DOMAIN own[i] THEN own[i] ELSE dict_set(own[i], k, v))

StoreDelete(i, k) ==
    /\ UNCHANGED notBucket
    /\ Performed(i, "delete", k, None, StoreDeleteOp(space[SpaceOf(i)], bkt[i], k),
                 dict_del(own[i], k))

StorePop(i, k, d) ==
    /\ UNCHANGED notBucket
    /\ Performed(i, "pop", k, d,
                 IF bkind = "local" THEN LocalPopOp(space[SpaceOf(i)], bkt[i], k)
                 ELSE RedisPopOp(space[SpaceOf(i)], bkt[i], k, d),
                 dict_del(own[i], k))

StoreClear(i) ==
    /\ UNCHANGED notBucket
    /\ Performed(i, "clear", <<>>, None,
                 IF bkind = "local" THEN LocalClearOp(space[SpaceOf(i)], bkt[i])
                 ELSE RedisClearOp(space[SpaceOf(i)], bkt[i]),
                 IF bkt[i] # <<>> THEN EmptyDict ELSE own[i])

\* IPC.scan_iter: for k in self.shdmem.scan_iter(match=match); what it yields
\* is StoreScanIter below
StoreScan(i, m) ==
    /\ UNCHANGED notBucket
    /\ Performed(i, "scan_iter", m, None,
                 MethodCall(bkind, "scan_iter", space[SpaceOf(i)]), own[i])

BucketNext ==
    \E i \in Stores :
        \/ \E k \in UserKeys, v \in Values : StoreSet(i, k, v)
        \/ \E k \in UserKeys, v \in Values : StoreSetdefault(i, k, v)
        \/ \E k \in UserKeys : StoreDelete(i, k)
        \/ \E k \in UserKeys, d \in Defaults : StorePop(i, k, d)
        \/ StoreClear(i)
        \/ \E m \in Patterns : StoreScan(i, m)

\* the reads of instance i in the current state
StoreGet(i, k, d) == StoreGetOp(space[SpaceOf(i)], bkt[i], k, d)

StoreGetitem(i, k) ==
    IF bkind = "local" THEN LocalGetitemOp(space[SpaceOf(i)], bkt[i], k)
    ELSE RedisGetitemOp(space[SpaceOf(i)], bkt[i], k)

StoreContains(i, k) == StoreContainsOp(space[SpaceOf(i)], bkt[i], k)

StoreKeys(i) ==
    IF bkind = "local" THEN LocalKeys(space[SpaceOf(i)], bkt[i])
    ELSE RedisKeys(space[SpaceOf(i)], bkt[i])

StoreValues(i) ==
    IF bkind = "local" THEN LocalValues(space[SpaceOf(i)], bkt[i])
    ELSE RedisValues(space[SpaceOf(i)], bkt[i])

\* scan_iter(match) of a SharedMemory instance
StoreScanIter(i, match) == LocalScanIter(space[SpaceOf(i)], bkt[i], match)

StoreItems(i) ==
    IF bkind = "local" THEN LocalItems(space[SpaceOf(i)], bkt[i])
    ELSE RedisItems(space[SpaceOf(i)], bkt[i])

(***************************************************************************)
(* The two stores side by side.  One caller makes the same calls on a      *)
(* SharedMemory and on a RedisSharedMemory instance made with the same     *)
(* bucket, each starting with an empty key space of its own.               *)
(***************************************************************************)
\* bucket names: none, a plain name, and names holding characters that the
\* patterns of KEYS and SCAN read as wildcards
PairBuckets == {<<>>, <<"a">>, <<"?">>, <<"[", "a", "]">>}

PairOps == {"set", "get", "setdefault", "delete", "pop", "contains", "keys", "clear"}

\* the call on the SharedMemory instance
LocalCall(op, s, b, k, v) ==
    CASE op = "set" -> StoreSetOp(s, b, k, v)
      [] op = "get" -> StoreGetOp(s, b, k, v)
      [] op = "setdefault" -> LocalSetdefaultOp(s, b, k, v)
      [] op = "delete" -> StoreDeleteOp(s, b, k)
      [] op = "pop" -> LocalPopOp(s, b, k)
      [] op = "contains" -> StoreContainsOp(s, b, k)
      [] op = "keys" -> Returned(s, LocalKeys(s, b))
      [] op = "clear" -> LocalClearOp(s, b)

\* the call on the RedisSharedMemory instance
RedisCall(op, s, b, k, v) ==
    CASE op = "set" -> StoreSetOp(s, b, k, v)
      [] op = "get" -> StoreGetOp(s, b, k, v)
      [] op = "setdefault" -> RedisSetdefaultOp(s, b, k, v)
      [] op = "delete" -> StoreDeleteOp(s, b, k)
      [] op = "pop" -> RedisPopOp(s, b, k, None)
      [] op = "contains" -> StoreContainsOp(s, b, k)
      [] op = "keys" -> Returned(s, RedisKeys(s, b))
      [] op = "clear" -> RedisClearOp(s, b)

PairInit ==
    /\ pbkt \in PairBuckets
    /\ lsp = EmptyStore
    /\ rsp = EmptyStore
    /\ lres = [raised |-> "none", ret |-> None]
    /\ rres = [raised |-> "none", ret |-> None]
    /\ pcall = [op |-> "none"]

\* the caller makes the call op(k, v) on both instances
PairCall(op, k, v) ==
    /\ UNCHANGED notPair
    /\ LET l == LocalCall(op, lsp, pbkt, k, v)
           r == RedisCall(op, rsp, pbkt, k, v)
       IN  /\ lsp' = l.dict
           /\ rsp' = r.dict
           /\ lres' = [raised |-> l.raised, ret |-> l.ret]
           /\ rres' = [raised |-> r.raised, ret |-> r.ret]
    /\ pcall' = [op |-> op, key |-> k, arg |-> v]
    /\ UNCHANGED pbkt

PairNext ==
    \E op \in PairOps, k \in UserKeys, v \in Values : PairCall(op, k, v)

(***************************************************************************)
(* Pub/sub clients.  WebSocketIPC and RedisIPC keep the same registry,     *)
(* self.callbacks, and dispatch from it in listen().  The client of this   *)
(* part is of either class; its inbound queue holds what the broker sends. *)
(***************************************************************************)
MaxSubs == 3

MaxItems == 2

MaxLog == 2

Channels == {"ch", "other"}

\* a callback is named by the subscribe call that registered it
CBs == 1..MaxSubs

Msgs == {"m1", "m2"}

NoInv == [seen |-> FALSE]

\* a subscribe that replaces the callbacks of the channel
RegisterReplaces(cbt, ch, cb) ==
    [x \in DOMAIN cbt \cup {ch} |-> IF x = ch THEN <<cb>> ELSE cbt[x]]

\* self.callbacks[channel].append(callback) on a defaultdict(list)
Register(cbt, ch, cb) ==
    [x \in DOMAIN cbt \cup {ch} |->
        IF x = ch
        THEN (IF ch \in DOMAIN cbt THEN Append(cbt[ch], cb) ELSE <<cb>>)
        ELSE cbt[x]]

\* (mutant) the callbacks of every channel, the message's channel first
CallbacksOfAnyChannel(cbt, ch) ==
    LET f(c) == IF c \in DOMAIN cbt THEN cbt[c] ELSE <<>>
    IN  f(ch) \o f(CHOOSE o \in Channels : o # ch)

\* if channel in self.callbacks: for cb in self.callbacks[channel]
CallbacksFor(cbt, ch) == IF ch \in DOMAIN cbt THEN cbt[ch] ELSE <<>>

\* for cb in cbs: cb(arg) -- the first n callbacks are invoked; n < Len(cbs)
\* happens only when the n-th raises, which ends the loop
Invoke(cbs, arg, n) == [i \in 1..n |-> [cb |-> cbs[i], arg |-> arg]]

\* The outcomes of the for loop: every callback returns (raised = FALSE, all
\* invoked) or the n-th raises (raised = TRUE, n invoked).
DispatchOutcomes(cbs, arg) ==
    {[calls |-> Invoke(cbs, arg, Len(cbs)), raised |-> FALSE]}
    \cup {[calls |-> Invoke(cbs, arg, n), raised |-> TRUE] : n \in 1..Len(cbs)}

Saturate(n) == IF n < MaxLog THEN n + 1 ELSE n

\* the frame the broker's broadcast sends: pickle.dumps({"channel":.., "message":..})
BroadcastFrame(ch, m) == pickle_dumps([channel |-> ch, message |-> m])

\* a data item of redis-py's pubsub.listen(); publish sent dumps(message)
RedisMessage(ch, m) == [type |-> "message", channel |-> ch, data |-> dumps(m)]

\* the acknowledgement of a SUBSCRIBE on the same stream
RedisAck(ch) == [type |-> "subscribe", channel |-> ch, data |-> NoData]

ListenInit ==
    /\ kind \in {"ws", "redis"}
    /\ callbacks = [x \in {} |-> <<>>]
    /\ inq = <<>>
    /\ lpc = "off"
    /\ inv = NoInv
    /\ nerr = 0
    /\ closedReads = 0
    /\ closed = FALSE
    /\ nArr = 0
    /\ nSub = 0

\* subscribe(channel, callback) of both classes; RedisIPC's pubsub.subscribe
\* makes the server acknowledge on the stream listen() reads
Subscribe(ch) ==
    /\ UNCHANGED notListen
    /\ nSub < MaxSubs
    /\ nSub' = nSub + 1
    /\ callbacks' = Register(callbacks, ch, nSub + 1)
    /\ inq' = IF kind = "redis" /\ ~closed THEN Append(inq, RedisAck(ch)) ELSE inq
    /\ UNCHANGED <<kind, lpc, inv, nerr, closedReads, closed, nArr>>

\* listen() is called, on a thread of its own
StartListen ==
    /\ UNCHANGED notListen
    /\ lpc = "off"
    /\ lpc' = "listening"
    /\ UNCHANGED <<kind, callbacks, inq, inv, nerr, closedReads, closed, nArr, nSub>>

\* a message published on ch reaches the client
Arrive(ch, m) ==
    /\ UNCHANGED notListen
    /\ nArr < MaxItems
    /\ ~closed
    /\ nArr' = nArr + 1
    /\ inq' = Append(inq, IF kind = "ws" THEN BroadcastFrame(ch, m) ELSE RedisMessage(ch, m))
    /\ UNCHANGED <<kind, callbacks, lpc, inv, nerr, closedReads, closed, nSub>>

\* WebSocketIPC.listen, one turn of the loop in which recv() returns a frame:
\* an exception of a callback is caught and logged, and the loop goes on
WsListenStep ==
    /\ UNCHANGED notListen
    /\ kind = "ws"
    /\ lpc = "listening"
    /\ inq # <<>>
    /\ LET msg == pickle_loads(Head(inq))
       IN  \E o \in DispatchOutcomes(CallbacksFor(callbacks, msg.channel), msg.message) :
              /\ inv' = [seen |-> TRUE, channel |-> msg.channel, arg |-> msg.message,
                         calls |-> o.calls, raised |-> o.raised]
              /\ nerr' = IF o.raised THEN Saturate(nerr) ELSE nerr
    /\ inq' = Tail(inq)
    /\ UNCHANGED <<kind, callbacks, lpc, closedReads, closed, nArr, nSub>>

\* WebSocketIPC.listen, one turn of the loop in which recv() raises because
\* the connection is closed: the except clause logs and the loop goes on
WsListenRecvFail ==
    /\ UNCHANGED notListen
    /\ kind = "ws"
    /\ lpc = "listening"
    /\ inq = <<>>
    /\ closed
    /\ nerr' = Saturate(nerr)
    /\ closedReads' = Saturate(closedReads)
    /\ UNCHANGED <<kind, callbacks, inq, lpc, inv, closed, nArr, nSub>>

\* a listen() that takes every item of the stream for a data message
EveryItemIsData(item) == TRUE

\* if message_dict['type'] == 'message'
IsDataMessage(item) == item.type = "message"

\* RedisIPC.listen, one turn of the for loop over pubsub.listen(): only
\* items of type 'message' are decoded and dispatched; an exception of a
\* callback leaves listen()
RedisListenStep ==
    /\ UNCHANGED notListen
    /\ kind = "redis"
    /\ lpc = "listening"
    /\ inq # <<>>
    /\ LET item == Head(inq)
       IN  IF IsDataMessage(item)
           THEN \E o \in DispatchOutcomes(CallbacksFor(callbacks, item.channel),
                                          loads(item.data)) :
                   /\ inv' = [seen |-> TRUE, channel |-> item.channel,
                              arg |-> loads(item.data),
                              calls |-> o.calls, raised |-> o.raised]
                   /\ lpc' = IF o.raised THEN "raised" ELSE lpc
           ELSE UNCHANGED <<inv, lpc>>
    /\ inq' = Tail(inq)
    /\ UNCHANGED <<kind, callbacks, nerr, closedReads, closed, nArr, nSub>>

\* pubsub.listen() on the closed connection ends the for loop, by the end of
\* the generator or by the connection error it raises
RedisListenEnd ==
    /\ UNCHANGED notListen
    /\ kind = "redis"
    /\ lpc = "listening"
    /\ inq = <<>>
    /\ closed
    /\ lpc' \in {"returned", "raised"}
    /\ UNCHANGED <<kind, callbacks, inq, inv, nerr, closedReads, closed, nArr, nSub>>

\* the connection is closed: by the caller, or by RedisIPC.stop
Close ==
    /\ UNCHANGED notListen
    /\ ~closed
    /\ closed' = TRUE
    /\ UNCHANGED <<kind, callbacks, inq, lpc, inv, nerr, closedReads, nArr, nSub>>

ListenNext ==
    \/ \E ch \in Channels : Subscribe(ch)
    \/ StartListen
    \/ \E ch \in Channels, m \in Msgs : Arrive(ch, m)
    \/ WsListenStep
    \/ WsListenRecvFail
    \/ RedisListenStep
    \/ RedisListenEnd
    \/ Close

(***************************************************************************)
(* The two listeners side by side.  The same callbacks are registered in   *)
(* a WebSocketIPC and in a RedisIPC instance, both are in listen(), and    *)
(* every message published reaches both.  A callback that raises on a      *)
(* message raises on it in both.                                           *)
(***************************************************************************)
\* the for loop over cbs in which the n-th callback is the first that raises
\* (none raises when n is 0 or beyond the last)
DispatchOutcome(cbs, arg, n) ==
    IF n \in 1..Len(cbs)
    THEN [calls |-> Invoke(cbs, arg, n), raised |-> TRUE]
    ELSE [calls |-> Invoke(cbs, arg, Len(cbs)), raised |-> FALSE]

\* WebSocketIPC.listen, one turn of while True on a frame: the except clause
\* takes what a callback raises and the loop goes on
WsListenTurn(l, cbt, frame, n) ==
    LET msg == pickle_loads(frame)
        o == DispatchOutcome(CallbacksFor(cbt, msg.channel), msg.message, n)
    IN  [lpc |-> "listening", calls |-> o.calls]

\* RedisIPC.listen, one turn of the for loop on an item: what a callback
\* raises leaves the loop and listen(); a listen() that is over calls nothing
RedisListenTurn(l, cbt, item, n) ==
    IF l.lpc # "listening" THEN [lpc |-> l.lpc, calls |-> <<>>]
    ELSE IF ~IsDataMessage(item) THEN [lpc |-> "listening", calls |-> <<>>]
    ELSE LET o == DispatchOutcome(CallbacksFor(cbt, item.channel), loads(item.data), n)
         IN  [lpc |-> IF o.raised THEN "raised" ELSE "listening", calls |-> o.calls]

TwinInit ==
    /\ tcallbacks = [x \in {} |-> <<>>]
    /\ wsl = [lpc |-> "listening", calls |-> <<>>]
    /\ rdl = [lpc |-> "listening", calls |-> <<>>]
    /\ nTSub = 0
    /\ nTMsg = 0

\* subscribe(channel, callback) on both instances
TwinSubscribe(ch) ==
    /\ UNCHANGED notTwin
    /\ nTSub < MaxSubs
    /\ nTSub' = nTSub + 1
    /\ tcallbacks' = Register(tcallbacks, ch, nTSub + 1)
    /\ UNCHANGED <<wsl, rdl, nTMsg>>

\* a message published on ch reaches both listeners, and each runs its turn
TwinMessage(ch, m, n) ==
    /\ UNCHANGED notTwin
    /\ nTMsg < MaxItems
    /\ nTMsg' = nTMsg + 1
    /\ wsl' = WsListenTurn(wsl, tcallbacks, BroadcastFrame(ch, m), n)
    /\ rdl' = RedisListenTurn(rdl, tcallbacks, RedisMessage(ch, m), n)
    /\ UNCHANGED <<tcallbacks, nTSub>>

TwinNext ==
    \/ \E ch \in Channels : TwinSubscribe(ch)
    \/ \E ch \in Channels, m \in Msgs, n \in 0..MaxSubs : TwinMessage(ch, m, n)

(***************************************************************************)
(* The connection of a client.  subscribe, publish and listen reach the    *)
(* connection through the property conn (lines 39-46), which tests         *)
(* self._conn, connects and assigns when it is None, and returns           *)
(* self._conn; no lock is held.  listen() runs on a thread of its own      *)
(* while the main thread calls subscribe and publish.                      *)
(***************************************************************************)
MaxCalls == 2

ClientThreads == {"listener", "main"}

MethodsOf(t) == IF t = "listener" THEN {"listen"} ELSE {"subscribe", "publish"}

ConnInit ==
    /\ _conn = 0
    /\ cpc = [t \in ClientThreads |-> "idle"]
    /\ cop = [t \in ClientThreads |-> "none"]
    /\ got = [t \in ClientThreads |-> 0]
    /\ nOpened = 0
    /\ subOn = {}
    /\ pubOn = {}
    /\ readOn = {}
    /\ nCalls = 0

\* thread t calls method m, which evaluates self.conn
ConnCall(t, m) ==
    /\ UNCHANGED notConn
    /\ cpc[t] = "idle"
    /\ IF t = "listener" THEN cop[t] = "none" /\ nCalls' = nCalls
       ELSE nCalls < MaxCalls /\ nCalls' = nCalls + 1
    /\ cop' = [cop EXCEPT ![t] = m]
    /\ cpc' = [cpc EXCEPT ![t] = "test"]
    /\ UNCHANGED <<_conn, got, nOpened, subOn, pubOn, readOn>>

\* if self._conn is None
IsNone(c) == c = 0

\* conn, line 42
ConnTest(t) ==
    /\ UNCHANGED notConn
    /\ cpc[t] = "test"
    /\ cpc' = [cpc EXCEPT ![t] = IF IsNone(_conn) THEN "connect" ELSE "return"]
    /\ UNCHANGED <<_conn, cop, got, nOpened, subOn, pubOn, readOn, nCalls>>

\* conn, lines 43-45: self._conn = websockets.sync.client.connect(uri)
ConnConnect(t) ==
    /\ UNCHANGED notConn
    /\ cpc[t] = "connect"
    /\ nOpened' = nOpened + 1
    /\ _conn' = nOpened + 1
    /\ cpc' = [cpc EXCEPT ![t] = "return"]
    /\ UNCHANGED <<cop, got, subOn, pubOn, readOn, nCalls>>

\* conn, line 46: return self._conn
ConnReturn(t) ==
    /\ UNCHANGED notConn
    /\ cpc[t] = "return"
    /\ got' = [got EXCEPT ![t] = _conn]
    /\ cpc' = [cpc EXCEPT ![t] = "use"]
    /\ UNCHANGED <<_conn, cop, nOpened, subOn, pubOn, readOn, nCalls>>

\* self.conn.send(...) of subscribe and publish, self.conn.recv() of listen:
\* the method uses the connection the property returned; recv() blocks
ConnUse(t) ==
    /\ UNCHANGED notConn
    /\ cpc[t] = "use"
    /\ subOn' = IF cop[t] = "subscribe" THEN subOn \cup {got[t]} ELSE subOn
    /\ pubOn' = IF cop[t] = "publish" THEN pubOn \cup {got[t]} ELSE pubOn
    /\ readOn' = IF cop[t] = "listen" THEN readOn \cup {got[t]} ELSE readOn
    /\ cpc' = [cpc EXCEPT ![t] = IF cop[t] = "listen" THEN "recv" ELSE "idle"]
    /\ UNCHANGED <<_conn, cop, got, nOpened, nCalls>>

\* listen, lines 103-117: recv() returns a frame, which the broker sends only
\* on a connection that subscribed, and the loop evaluates self.conn again
ConnRecvReturns(t) ==
    /\ UNCHANGED notConn
    /\ cpc[t] = "recv"
    /\ got[t] \in subOn
    /\ cpc' = [cpc EXCEPT ![t] = "test"]
    /\ UNCHANGED <<_conn, cop, got, nOpened, subOn, pubOn, readOn, nCalls>>

ConnNext ==
    \E t \in ClientThreads :
        \/ \E m \in MethodsOf(t) : ConnCall(t, m)
        \/ ConnTest(t)
        \/ ConnConnect(t)
        \/ ConnReturn(t)
        \/ ConnUse(t)
        \/ ConnRecvReturns(t)

(***************************************************************************)
(* running(): the health probe.                                            *)
(*                                                                         *)
(* WebSocketIPC.running: a TCP connect_ex outside any try block, then,     *)
(* inside try/except (socket.timeout, WebSocketException, OSError), a      *)
(* WebSocket connection with open_timeout 1.0, a "ping" frame carrying     *)
(* str(self.__class__), and a recv() that is given no timeout.             *)
(* RedisIPC.running: redis.Redis(..., socket_connect_timeout=1).ping()     *)
(* inside try/except (redis.ConnectionError, redis.TimeoutError).          *)
(*                                                                         *)
(* The peer is what the probe finds at host:port; it is fixed for a        *)
(* behaviour.  socket.connect_ex returns an error number for the errors of *)
(* connect(2) and raises for the others (socket.gaierror when the host     *)
(* name does not resolve); redis-py turns every OSError of its connect,    *)
(* name resolution included, into redis.ConnectionError.                   *)
(***************************************************************************)
MaxProbes == 3

WsPeers == {"no_such_host", "port_closed", "no_route", "broker", "broker_main",
            "echo", "not_websocket", "drops"}

RedisPeers == {"no_such_host", "port_closed", "no_route", "redis", "silent", "drops"}

\* str(self.__class__) of the client, which imports ga.ipc.web_socket_ipc
OwnIdentity == <<"class", "ga.ipc.web_socket_ipc.WebSocketIPC">>

\* str(self.__class__) in the broker: the same class, or the class of the
\* module run as a script (web_socket_ipc.py, lines 182-184)
BrokerIdentity(pr) ==
    IF pr = "broker_main" THEN <<"class", "__main__.WebSocketIPC">> ELSE OwnIdentity

\* the classes an exception is an instance of
Bases(exc) ==
    CASE exc = "socket.gaierror" -> {"socket.gaierror", "OSError"}
      [] exc = "TimeoutError" -> {"TimeoutError", "socket.timeout", "OSError"}
      [] exc = "ConnectionRefusedError" -> {"ConnectionRefusedError", "OSError"}
      [] exc = "InvalidHandshake" -> {"InvalidHandshake", "WebSocketException"}
      [] exc = "ConnectionClosed" -> {"ConnectionClosed", "WebSocketException"}
      [] exc = "redis.ConnectionError" -> {"redis.ConnectionError"}
      [] exc = "redis.TimeoutError" -> {"redis.TimeoutError"}
      [] OTHER -> {exc}

\* except (socket.timeout, WebSocketException, OSError): return False
WsHandlers == {"socket.timeout", "WebSocketException", "OSError"}

\* except (redis.ConnectionError, redis.TimeoutError): return False
RedisHandlers == {"redis.ConnectionError", "redis.TimeoutError"}

\* an exception raised inside a try block: "false" when an except clause
\* names one of its classes, raised to the caller otherwise
Handle(exc, handlers) == IF Bases(exc) \cap handlers # {} THEN "false" ELSE "raised"

\* a text frame, as opposed to the binary frame pickle_dumps makes
TextFrame(text) == [str |-> text]

\* the "ping" frame of running()
PingFrame == pickle_dumps([type |-> "ping", channel |-> None, message |-> OwnIdentity])

\* a broker that answers every ping
PingAlwaysAnswered(identity, data) == <<TextFrame(identity)>>

\* handler, lines 60-63: the frames the broker sends back for a ping
PingReply(identity, data) ==
    IF data.type = "ping" /\ data.message = identity THEN <<TextFrame(identity)>> ELSE <<>>

ProbeInit ==
    /\ pkind \in {"ws", "redis"}
    /\ peer \in (IF pkind = "ws" THEN WsPeers ELSE RedisPeers)
    /\ ppc = "idle"
    /\ presult = "none"
    /\ perr = "none"
    /\ pin = <<>>
    /\ pout = <<>>
    /\ nProbe = 0

Return(value, exc) ==
    /\ ppc' = "idle"
    /\ presult' = value
    /\ perr' = exc
    /\ pin' = <<>>
    /\ pout' = <<>>

\* running() is called
WsRunningCall ==
    /\ UNCHANGED notProbe
    /\ pkind = "ws"
    /\ ppc = "idle"
    /\ nProbe < MaxProbes
    /\ nProbe' = nProbe + 1
    /\ ppc' = "tcp"
    /\ presult' = "none"
    /\ perr' = "none"
    /\ UNCHANGED <<pkind, peer, pin, pout>>

\* lines 149-152: s.connect_ex((host, port)), outside the try block
WsRunningTcp ==
    /\ UNCHANGED notProbe
    /\ pkind = "ws"
    /\ ppc = "tcp"
    /\ CASE peer = "no_such_host" -> Return("raised", "socket.gaierror")
         [] peer = "port_closed" -> Return("false", "ConnectionRefusedError")
         [] peer = "no_route" -> Return("false", "TimeoutError")
         [] OTHER -> /\ ppc' = "connect"
                     /\ UNCHANGED <<presult, perr, pin, pout>>
    /\ UNCHANGED <<pkind, peer, nProbe>>

\* line 157: ws_connect(uri, open_timeout=1.0, close_timeout=1.0)
WsRunningConnect ==
    /\ UNCHANGED notProbe
    /\ pkind = "ws"
    /\ ppc = "connect"
    /\ \/ /\ peer = "not_websocket"
          /\ \E exc \in {"InvalidHandshake", "TimeoutError"} :
                Return(Handle(exc, WsHandlers), exc)
       \/ /\ peer = "drops"
          /\ Return(Handle("ConnectionRefusedError", WsHandlers), "ConnectionRefusedError")
       \/ /\ peer \in {"broker", "broker_main", "echo", "drops"}
          /\ ppc' = "send"
          /\ UNCHANGED <<presult, perr, pin, pout>>
    /\ UNCHANGED <<pkind, peer, nProbe>>

\* lines 159-160: ws.send(pickle.dumps(msg))
WsRunningSend ==
    /\ UNCHANGED notProbe
    /\ pkind = "ws"
    /\ ppc = "send"
    /\ \/ /\ peer = "drops"
          /\ Return(Handle("ConnectionClosed", WsHandlers), "ConnectionClosed")
       \/ /\ ppc' = "recv"
          /\ pin' = Append(pin, PingFrame)
          /\ UNCHANGED <<presult, perr, pout>>
    /\ UNCHANGED <<pkind, peer, nProbe>>

\* lines 163-167 and 172: data = ws.recv(), with no timeout; the call
\* returns when a frame has come or the connection is closed
WsRunningRecv ==
    /\ UNCHANGED notProbe
    /\ pkind = "ws"
    /\ ppc = "recv"
    /\ \/ /\ pout # <<>>
          /\ Return(IF Head(pout) = TextFrame(OwnIdentity) THEN "true" ELSE "false", "none")
       \/ /\ pout = <<>>
          /\ peer = "drops"
          /\ Return(Handle("ConnectionClosed", WsHandlers), "ConnectionClosed")
    /\ UNCHANGED <<pkind, peer, nProbe>>

\* the broker's handler takes the probe's frame (lines 53-63)
BrokerHandlesPing ==
    /\ UNCHANGED notProbe
    /\ pkind = "ws"
    /\ peer \in {"broker", "broker_main"}
    /\ pin # <<>>
    /\ pin' = Tail(pin)
    /\ pout' = pout \o PingReply(BrokerIdentity(peer), pickle_loads(Head(pin)))
    /\ UNCHANGED <<pkind, peer, ppc, presult, perr, nProbe>>

\* RedisIPC.running is called: the temporary client is built (line 252)
RedisRunningCall ==
    /\ UNCHANGED notProbe
    /\ pkind = "redis"
    /\ ppc = "idle"
    /\ nProbe < MaxProbes
    /\ nProbe' = nProbe + 1
    /\ ppc' = "ping"
    /\ presult' = "none"
    /\ perr' = "none"
    /\ UNCHANGED <<pkind, peer, pin, pout>>

\* line 253: return client.ping(); the reply is read with no socket_timeout
RedisRunningPing ==
    /\ UNCHANGED notProbe
    /\ pkind = "redis"
    /\ ppc = "ping"
    /\ CASE peer \in {"no_such_host", "port_closed", "drops"} ->
              Return(Handle("redis.ConnectionError", RedisHandlers), "redis.ConnectionError")
         [] peer = "no_route" ->
              Return(Handle("redis.TimeoutError", RedisHandlers), "redis.TimeoutError")
         [] peer = "redis" -> Return("true", "none")
         [] OTHER -> FALSE
    /\ UNCHANGED <<pkind, peer, nProbe>>

\* a WebSocket server that is not the broker sends the frame back
EchoServerReplies ==
    /\ UNCHANGED notProbe
    /\ pkind = "ws"
    /\ peer = "echo"
    /\ pin # <<>>
    /\ pin' = Tail(pin)
    /\ pout' = Append(pout, Head(pin))
    /\ UNCHANGED <<pkind, peer, ppc, presult, perr, nProbe>>

ProbeNext ==
    \/ WsRunningCall
    \/ WsRunningTcp
    \/ WsRunningConnect
    \/ WsRunningSend
    \/ WsRunningRecv
    \/ BrokerHandlesPing
    \/ EchoServerReplies
    \/ RedisRunningCall
    \/ RedisRunningPing

(***************************************************************************)
(* The broker: WebSocketIPC.handler and WebSocketIPC.broadcast, run by one *)
(* asyncio event loop.  A handler coroutine gives up the loop only where   *)
(* it awaits: at the read of the next frame and at every send.  A send     *)
(* returns when the frame has been handed to the transport, which it       *)
(* waits for while the connection's write buffer is full.                  *)
(*                                                                         *)
(* self.clients is a dict; its iteration is CPython's: the iterator keeps  *)
(* the size the dict had when the iteration began (di_used), its position  *)
(* in the entry array (di_pos) and the number of items still expected      *)
(* (len).  A deletion leaves a hole in the entry array and an insertion    *)
(* appends to it (the array of a dict of at most five keys is never        *)
(* rebuilt).                                                               *)
(***************************************************************************)
NConns == 3

\* calls of subscribe and publish, and clients going away, in a behaviour
MaxClientOps == 4

Conns == 1..NConns

\* the channels published on; clients subscribe to any of Channels
PubChannels == {"ch"}

NoBc == [on |-> FALSE, ch |-> "", msg |-> 0, pos |-> 0, used0 |-> 0, left |-> 0,
         target |-> 0, att |-> {}, failed |-> {}, subs0 |-> {}, subs |-> {}]

\* len(self.clients): ma_used
Used(ents) == Cardinality({i \in 1..Len(ents) : ents[i] # 0})

\* self.clients[websocket] = set(): a new entry at the end of the entry array
DictInsert(ents, c) == Append(ents, c)

\* del self.clients[websocket]: the entry becomes a hole
DictDelete(ents, c) == [i \in 1..Len(ents) |-> IF ents[i] = c THEN 0 ELSE ents[i]]

\* the first entry at or after position pos that is not a hole, 0 when none
NextEntry(ents, pos) ==
    LET live == {i \in pos..Len(ents) : ents[i] # 0}
    IN  IF live = {} THEN 0 ELSE CHOOSE i \in live : \A j \in live : i <= j

\* dictiter_iternextitem: one step of "for ws, chans in self.clients.items()"
IterNext(ents, it) ==
    IF it.used0 # Used(ents) THEN [kind |-> "RuntimeError"]
    ELSE LET i == NextEntry(ents, it.pos)
         IN  IF i = 0 THEN [kind |-> "stop"]
             ELSE IF it.left = 0 THEN [kind |-> "RuntimeError"]
             ELSE [kind |-> "item", ws |-> ents[i], pos |-> i + 1, left |-> it.left - 1]

\* broadcast, lines 84-86: the loop runs to the next connection subscribed to
\* ch, where it awaits the send, or to the end of the iteration
RECURSIVE NextSend(_, _, _, _)
NextSend(ents, chs, it, ch) ==
    LET r == IterNext(ents, it)
    IN  IF r.kind # "item" THEN r
        ELSE IF ch \in chs[r.ws] THEN [r EXCEPT !.kind = "send"]
        ELSE NextSend(ents, chs, [it EXCEPT !.pos = r.pos, !.left = r.left], ch)

PublishFrame(ch, m) == pickle_dumps([type |-> "publish", channel |-> ch, message |-> m])

SubscribeFrame(ch) == pickle_dumps([type |-> "subscribe", channel |-> ch, message |-> None])

BrokerInit ==
    /\ cst = [c \in Conns |-> "none"]
    /\ entries = <<>>
    /\ chans = [c \in Conns |-> {}]
    /\ hpc = [c \in Conns |-> "off"]
    /\ hres = [c \in Conns |-> "none"]
    /\ bc = [c \in Conns |-> NoBc]
    /\ c2s = [c \in Conns |-> <<>>]
    /\ s2c = [c \in Conns |-> <<>>]
    /\ subRet = [c \in Conns |-> {}]
    /\ owed = {}
    /\ nLogged = 0
    /\ nPub = 0
    /\ nOther = 0
    /\ pubs = <<>>

\* the conn property, lines 39-46: the connection is opened at its first use
Conn(c) == IF cst[c] = "none" THEN [cst EXCEPT ![c] = "open"] ELSE cst

NClientOps ==
    Cardinality({x \in Conns \X Channels : x[2] \in subRet[x[1]]}) + nPub + nOther
        + Cardinality({d \in Conns : cst[d] = "closed" /\ hres[d] # "RuntimeError"})

\* connections are numbered in the order in which their clients open them
MayUse(c) == cst[c] # "closed" /\ \A d \in 1..(c - 1) : cst[d] # "none"

\* a frame that overtakes the frames sent before it
SendOvertakes(q, f) == <<f>> \o q

\* self.conn.send(frame): the frames of one connection arrive in the order sent
ConnSend(q, f) == Append(q, f)

\* subscribe, lines 91-98, on the client of connection c
ClientSubscribe(c, ch) ==
    /\ UNCHANGED notBroker
    /\ MayUse(c)
    /\ NClientOps < MaxClientOps
    /\ ch \notin subRet[c]
    /\ cst' = Conn(c)
    /\ c2s' = [c2s EXCEPT ![c] = ConnSend(@, SubscribeFrame(ch))]
    /\ subRet' = [subRet EXCEPT ![c] = @ \cup {ch}]
    /\ UNCHANGED <<entries, chans, hpc, hres, bc, s2c, owed, nLogged, nPub, nOther, pubs>>

\* publish, lines 120-131, on the client of connection c
ClientPublish(c, ch) ==
    /\ UNCHANGED notBroker
    /\ MayUse(c)
    /\ NClientOps < MaxClientOps
    /\ nPub' = nPub + 1
    /\ cst' = Conn(c)
    /\ c2s' = [c2s EXCEPT ![c] = ConnSend(@, PublishFrame(ch, nPub + 1))]
    /\ owed' = owed \cup {<<a, nPub + 1>> : a \in {d \in Conns : ch \in subRet[d]}}
    /\ pubs' = Append(pubs, [by |-> c, ch |-> ch, taken |-> FALSE, subs |-> {}])
    /\ UNCHANGED <<entries, chans, hpc, hres, bc, s2c, subRet, nLogged, nOther>>

\* the frames a connection can carry that neither subscribe nor publish: the
\* ping of running() and a text frame
OtherFrames == {PingFrame, TextFrame(<<"hello">>)}

\* a client sends a ping or a text frame on connection c
ClientSendsOther(c, f) ==
    /\ UNCHANGED notBroker
    /\ MayUse(c)
    /\ NClientOps < MaxClientOps
    /\ nOther' = nOther + 1
    /\ cst' = Conn(c)
    /\ c2s' = [c2s EXCEPT ![c] = ConnSend(@, f)]
    /\ UNCHANGED <<entries, chans, hpc, hres, bc, s2c, subRet, owed, nLogged, nPub, pubs>>

\* a subscribe that puts the channel in the set of every connection
AddChannelToAll(chs, c, ch) == [d \in Conns |-> chs[d] \cup {ch}]

\* self.clients[websocket].add(channel)
AddChannel(chs, c, ch) == [chs EXCEPT ![c] = @ \cup {ch}]

\* handler, lines 48-51: the broker accepts the connection and starts its handler
HandlerStart(c) ==
    /\ UNCHANGED notBroker
    /\ cst[c] # "none"
    /\ hpc[c] = "off"
    /\ hpc' = [hpc EXCEPT ![c] = "recv"]
    /\ entries' = DictInsert(entries, c)
    /\ chans' = [chans EXCEPT ![c] = {}]
    /\ UNCHANGED <<cst, hres, bc, c2s, s2c, subRet, owed, nLogged, nPub, nOther, pubs>>

\* the connections whose entry of self.clients holds channel ch
Subscribed(ents, chs, ch) == {d \in Conns : (\E i \in 1..Len(ents) : ents[i] = d) /\ ch \in chs[d]}

\* broadcast, lines 84-89, from the iterator state of b to the next await:
\* the next send, the end of the loop, or the RuntimeError of the iterator,
\* which no except clause of broadcast or handler catches, so that the
\* handler runs its finally clause (line 79) and ends, closing the connection
BroadcastRun(c, b, queues) ==
    LET r == NextSend(entries, chans, [pos |-> b.pos, used0 |-> b.used0, left |-> b.left], b.ch)
        b1 == [b EXCEPT !.subs = @ \cup Subscribed(entries, chans, b.ch)]
    IN  CASE r.kind = "send" ->
               /\ bc' = [bc EXCEPT ![c] = [b1 EXCEPT !.pos = r.pos, !.left = r.left,
                                                     !.target = r.ws]]
               /\ hpc' = [hpc EXCEPT ![c] = "send"]
               /\ c2s' = queues
               /\ UNCHANGED <<entries, chans, hres, cst>>
          [] r.kind = "stop" ->
               /\ bc' = [bc EXCEPT ![c] = NoBc]
               /\ hpc' = [hpc EXCEPT ![c] = "recv"]
               /\ c2s' = queues
               /\ UNCHANGED <<entries, chans, hres, cst>>
          [] OTHER ->
               /\ bc' = [bc EXCEPT ![c] = NoBc]
               /\ hpc' = [hpc EXCEPT ![c] = "done"]
               /\ hres' = [hres EXCEPT ![c] = "RuntimeError"]
               /\ entries' = DictDelete(entries, c)
               /\ chans' = [chans EXCEPT ![c] = {}]
               /\ cst' = [cst EXCEPT ![c] = "closed"]
               /\ c2s' = [queues EXCEPT ![c] = <<>>]

\* if isinstance(message, str)
IsText(frame) == "str" \in DOMAIN frame

\* handler, lines 53-75: the handler of connection c reads a frame; a text
\* frame is logged and nothing else
HandlerRecv(c) ==
    /\ UNCHANGED notBroker
    /\ hpc[c] = "recv"
    /\ c2s[c] # <<>>
    /\ LET data == IF IsText(Head(c2s[c])) THEN [type |-> "text"]
                   ELSE pickle_loads(Head(c2s[c]))
           rest == [c2s EXCEPT ![c] = Tail(@)]
       IN  CASE data.type = "text" ->
                  /\ c2s' = rest
                  /\ UNCHANGED <<entries, chans, hpc, hres, bc, cst, s2c>>
             [] data.type = "publish" ->
                  /\ BroadcastRun(c, [NoBc EXCEPT !.on = TRUE, !.ch = data.channel,
                                        !.msg = data.message, !.pos = 1,
                                        !.used0 = Used(entries), !.left = Used(entries),
                                        !.subs0 = Subscribed(entries, chans, data.channel)],
                                  rest)
                  /\ s2c' = s2c
             [] data.type = "subscribe" ->
                  /\ chans' = AddChannel(chans, c, data.channel)
                  /\ c2s' = rest
                  /\ UNCHANGED <<entries, hpc, hres, bc, cst, s2c>>
             [] OTHER ->
                  /\ s2c' = [s2c EXCEPT ![c] = @ \o PingReply(OwnIdentity, data)]
                  /\ c2s' = rest
                  /\ UNCHANGED <<entries, chans, hpc, hres, bc, cst>>
    /\ pubs' = IF ~IsText(Head(c2s[c])) /\ pickle_loads(Head(c2s[c])).type = "publish"
               THEN LET data == pickle_loads(Head(c2s[c]))
                    IN  [pubs EXCEPT ![data.message] =
                            [@ EXCEPT !.taken = TRUE,
                                      !.subs = Subscribed(entries, chans, data.channel)]]
               ELSE pubs
    /\ UNCHANGED <<subRet, owed, nLogged, nPub, nOther>>

\* broadcast, lines 86-89: the send the handler of c awaits returns, or
\* raises because the target's connection is closed; the loop goes on
SendReturns(c) ==
    /\ UNCHANGED notBroker
    /\ hpc[c] \in {"send", "stalled"}
    /\ LET t == bc[c].target
       IN  \/ /\ cst[t] = "open"
              /\ hpc[c] = "send"
              /\ s2c' = [s2c EXCEPT ![t] = Append(@, BroadcastFrame(bc[c].ch, bc[c].msg))]
              /\ nLogged' = nLogged
              /\ BroadcastRun(c, [bc[c] EXCEPT !.att = @ \cup {t}], c2s)
           \/ /\ cst[t] = "closed"
              /\ s2c' = s2c
              /\ nLogged' = nLogged + 1
              /\ BroadcastRun(c, [bc[c] EXCEPT !.failed = @ \cup {t}], c2s)
    /\ UNCHANGED <<subRet, owed, nPub, nOther, pubs>>

\* the target of the send the handler of c awaits is a stuck subscriber: it
\* has stopped reading and its write buffer stays full, so that the send
\* does not return for as long as the connection stays open
TargetStalls(c) ==
    /\ UNCHANGED notBroker
    /\ hpc[c] = "send"
    /\ cst[bc[c].target] = "open"
    /\ \A d \in Conns : hpc[d] # "stalled"
    /\ hpc' = [hpc EXCEPT ![c] = "stalled"]
    /\ UNCHANGED <<cst, entries, chans, hres, bc, c2s, s2c, subRet, owed, nLogged, nPub,
                   nOther, pubs>>

\* handler, lines 76-79: the connection is closed and every frame was read;
\* the async for ends and the finally clause deletes the entry
HandlerEnd(c) ==
    /\ UNCHANGED notBroker
    /\ hpc[c] = "recv"
    /\ cst[c] = "closed"
    /\ c2s[c] = <<>>
    /\ hpc' = [hpc EXCEPT ![c] = "done"]
    /\ hres' = [hres EXCEPT ![c] = "closed"]
    /\ entries' = DictDelete(entries, c)
    /\ chans' = [chans EXCEPT ![c] = {}]
    /\ UNCHANGED <<cst, bc, c2s, s2c, subRet, owed, nLogged, nPub, nOther, pubs>>

\* the client of connection c goes away: its process ends or the network drops
ClientCloses(c) ==
    /\ UNCHANGED notBroker
    /\ cst[c] = "open"
    /\ NClientOps < MaxClientOps
    /\ cst' = [cst EXCEPT ![c] = "closed"]
    /\ UNCHANGED <<entries, chans, hpc, hres, bc, c2s, s2c, subRet, owed,
                   nLogged, nPub, nOther, pubs>>

BrokerNext ==
    \/ \E c \in Conns, ch \in Channels : ClientSubscribe(c, ch)
    \/ \E c \in Conns, ch \in PubChannels : ClientPublish(c, ch)
    \/ \E c \in Conns, f \in OtherFrames : ClientSendsOther(c, f)
    \/ \E c \in Conns : HandlerStart(c)
    \/ \E c \in Conns : HandlerRecv(c)
    \/ \E c \in Conns : SendReturns(c)
    \/ \E c \in Conns : TargetStalls(c)
    \/ \E c \in Conns : HandlerEnd(c)
    \/ \E c \in Conns : ClientCloses(c)

(***************************************************************************)
(* Iterating a store.  items() is a generator: it scans the keys of the    *)
(* bucket when it is first advanced and reads the value of one key each    *)
(* time it is advanced again, while another caller of the same store sets  *)
(* and deletes keys.  The get of one key is taken as one step here.        *)
(***************************************************************************)
IterBucket == <<"a">>

MaxIters == 2

MaxIterOps == 3

\* the values the bucket holds under each user key
HeldNow(s) ==
    [k \in UserKeys |-> IF has_key(s, BucketPrefix(IterBucket) \o k)
                        THEN {loads(kv_get(s, BucketPrefix(IterBucket) \o k))}
                        ELSE {}]

\* the keys the scan of items() goes through: scan_iter() of SharedMemory,
\* client.scan_iter(match=pattern) of RedisSharedMemory, without the prefix
ItemsScan(kd, s) == IF kd = "local" THEN LocalScan(s, IterBucket) ELSE RedisKeys(s, IterBucket)

\* what items() yields for a scanned key: SharedMemory yields
\* (key, self.get(key)); RedisSharedMemory reads the data and yields
\* (clean_key, loads(data)) only if data is not None
ItemsYield(kd, s, k) ==
    IF kd = "local"
    THEN {[key |-> k, value |-> StoreGetOp(s, IterBucket, k, None).ret]}
    ELSE LET data == kv_get(s, BucketPrefix(IterBucket) \o k)
         IN  IF data # NoData THEN {[key |-> k, value |-> loads(data)]} ELSE {}

IterInit ==
    /\ ikind \in {"local", "redis"}
    /\ idict = EmptyStore
    /\ igen = "idle"
    /\ itodo = {}
    /\ iheld = [k \in UserKeys |-> {}]
    /\ iyielded = {}
    /\ nIter = 0
    /\ nIOps = 0

\* items() is called and advanced for the first time: a fresh scan
ItemsStart ==
    /\ UNCHANGED notIter
    /\ igen = "idle"
    /\ nIter < MaxIters
    /\ nIter' = nIter + 1
    /\ igen' = "running"
    /\ itodo' = ItemsScan(ikind, idict)
    /\ iheld' = HeldNow(idict)
    /\ iyielded' = {}
    /\ UNCHANGED <<ikind, idict, nIOps>>

\* the generator goes on to the next key of its scan
ItemsStep(k) ==
    /\ UNCHANGED notIter
    /\ igen = "running"
    /\ k \in itodo
    /\ itodo' = itodo \ {k}
    /\ iyielded' = iyielded \cup ItemsYield(ikind, idict, k)
    /\ UNCHANGED <<ikind, idict, igen, iheld, nIter, nIOps>>

\* the scan is exhausted: the generator ends
ItemsEnd ==
    /\ UNCHANGED notIter
    /\ igen = "running"
    /\ itodo = {}
    /\ igen' = "idle"
    /\ UNCHANGED <<ikind, idict, itodo, iheld, iyielded, nIter, nIOps>>

\* the other caller: set(k, v)
OtherSet(k, v) ==
    /\ UNCHANGED notIter
    /\ nIOps < MaxIterOps
    /\ nIOps' = nIOps + 1
    /\ idict' = StoreSetOp(idict, IterBucket, k, v).dict
    /\ iheld' = IF igen = "running" THEN [iheld EXCEPT ![k] = @ \cup {v}] ELSE iheld
    /\ UNCHANGED <<ikind, igen, itodo, iyielded, nIter>>

\* the other caller: delete(k)
OtherDelete(k) ==
    /\ UNCHANGED notIter
    /\ nIOps < MaxIterOps
    /\ nIOps' = nIOps + 1
    /\ idict' = StoreDeleteOp(idict, IterBucket, k).dict
    /\ UNCHANGED <<ikind, igen, itodo, iheld, iyielded, nIter>>

ItemsNext ==
    \/ ItemsStart
    \/ \E k \in UserKeys : ItemsStep(k)
    \/ ItemsEnd
    \/ \E k \in UserKeys, v \in Values : OtherSet(k, v)
    \/ \E k \in UserKeys : OtherDelete(k)

(***************************************************************************)
(* IPC objects.  Each IPC object has a pub/sub client of its own; all are  *)
(* connected to one server, which sends a published message to the clients *)
(* subscribed to the channel name it was published on.  The callbacks of   *)
(* this part return.                                                       *)
(***************************************************************************)
Facades == {"F1", "F2"}

FacadeBuckets == {<<>>, <<"a">>, <<"a", ":", "b">>}

FacadeChannels == {<<"c">>, <<"b", ":", "c">>}

MaxFSubs == 2

MaxFPubs == 2

\* IPC._key: f"{self.prefix}{key}", prefix = f"{bucket}:" if bucket else ""
IPC_key(b, ch) == BucketPrefix(b) \o ch

FacadeInit ==
    /\ fbkt \in [Facades -> FacadeBuckets]
    /\ fcb = [f \in Facades |-> [x \in {} |-> <<>>]]
    /\ finbox = [f \in Facades |-> <<>>]
    /\ fsub = <<>>
    /\ fdel = {}
    /\ nFPub = 0

\* IPC.subscribe(channel, callback): self.ipc.subscribe(self._key(channel), callback)
FacadeSubscribe(f, ch) ==
    /\ UNCHANGED notFacade
    /\ Len(fsub) < MaxFSubs
    /\ fsub' = Append(fsub, [of |-> f, ch |-> ch])
    /\ fcb' = [fcb EXCEPT ![f] = Register(fcb[f], IPC_key(fbkt[f], ch), Len(fsub) + 1)]
    /\ UNCHANGED <<fbkt, finbox, fdel, nFPub>>

\* IPC.publish(channel, message): self.ipc.publish(self._key(channel), message);
\* the server passes the message on to every client subscribed to that name
FacadePublish(f, ch, m) ==
    /\ UNCHANGED notFacade
    /\ nFPub < MaxFPubs
    /\ nFPub' = nFPub + 1
    /\ LET full == IPC_key(fbkt[f], ch)
       IN  finbox' = [g \in Facades |->
                        IF full \in DOMAIN fcb[g]
                        THEN Append(finbox[g], [channel |-> full, message |-> m,
                                                by |-> f, on |-> ch])
                        ELSE finbox[g]]
    /\ UNCHANGED <<fbkt, fcb, fsub, fdel>>

\* IPC.listen(): one turn of self.ipc.listen(), which calls the callbacks
\* registered under the channel name of the message it read
FacadeListen(g) ==
    /\ UNCHANGED notFacade
    /\ finbox[g] # <<>>
    /\ LET item == Head(finbox[g])
           cbs == CallbacksFor(fcb[g], item.channel)
       IN  fdel' = fdel \cup {[by |-> item.by, on |-> item.on, to |-> g, cb |-> cbs[i]]
                                : i \in 1..Len(cbs)}
    /\ finbox' = [finbox EXCEPT ![g] = Tail(finbox[g])]
    /\ UNCHANGED <<fbkt, fcb, fsub, nFPub>>

FacadeNext ==
    \/ \E f \in Facades, ch \in FacadeChannels : FacadeSubscribe(f, ch)
    \/ \E f \in Facades, ch \in FacadeChannels, m \in Msgs : FacadePublish(f, ch, m)
    \/ \E g \in Facades : FacadeListen(g)

(***************************************************************************)
(* Specifications                                                          *)
(***************************************************************************)
ListenParked == ListenInit /\ kind = "ws"

ProbeParked == ProbeInit /\ pkind = "ws" /\ peer = "broker"

BrokerParked == BrokerInit

SerParked == SerInit /\ installed = Libs

LifeParked == LifeInit /\ lkind = "ws" /\ occupant = "none"

TwinParked == TwinInit

ConnParked == ConnInit

PairParked == PairInit /\ pbkt = <<"a">>

FacadeParked == FacadeInit /\ fbkt = [f \in Facades |-> <<>>]

IterParked == IterInit /\ ikind = "local"

BucketParked ==
    BucketInit /\ bkind = "local" /\ bkt = [i \in Stores |-> IF i = "A" THEN <<"a">> ELSE <<>>]

InitLocal ==
    /\ StoreInit /\ ListenParked /\ ProbeParked /\ BrokerParked /\ BucketParked /\ SerParked /\ LifeParked
    /\ TwinParked /\ ConnParked /\ PairParked /\ FacadeParked /\ IterParked

SpecLocal == InitLocal /\ [][LocalNext]_vars

InitRedis ==
    /\ StoreInit /\ ListenParked /\ ProbeParked /\ BrokerParked /\ BucketParked /\ SerParked /\ LifeParked
    /\ TwinParked /\ ConnParked /\ PairParked /\ FacadeParked /\ IterParked

SpecRedis == InitRedis /\ [][RedisNext]_vars

InitListen ==
    /\ ListenInit /\ StoreInit /\ ProbeParked /\ BrokerParked /\ BucketParked /\ SerParked /\ LifeParked
    /\ TwinParked /\ ConnParked /\ PairParked /\ FacadeParked /\ IterParked

SpecListen == InitListen /\ [][ListenNext]_vars

InitProbe ==
    /\ ProbeInit /\ StoreInit /\ ListenParked /\ BrokerParked /\ BucketParked /\ SerParked /\ LifeParked
    /\ TwinParked /\ ConnParked /\ PairParked /\ FacadeParked /\ IterParked

SpecProbe == InitProbe /\ [][ProbeNext]_vars

InitBroker ==
    /\ BrokerInit /\ StoreInit /\ ListenParked /\ ProbeParked /\ BucketParked /\ SerParked /\ LifeParked
    /\ TwinParked /\ ConnParked /\ PairParked /\ FacadeParked /\ IterParked

SpecBroker == InitBroker /\ [][BrokerNext]_vars

InitBuckets ==
    /\ BucketInit /\ StoreInit /\ ListenParked /\ ProbeParked /\ BrokerParked
    /\ SerParked /\ LifeParked /\ TwinParked /\ ConnParked /\ PairParked /\ FacadeParked
    /\ IterParked

SpecBuckets == InitBuckets /\ [][BucketNext]_vars

\* two instances made with the same bucket name, as worker_process and
\* example_multiprocess make them (SharedMemory(bucket="workers"))
SameBucketInit ==
    /\ bkind \in {"local", "redis"}
    /\ bkt \in {f \in [Stores -> Buckets] : f["A"] = f["B"]}
    /\ space = [i \in Stores |-> EmptyStore]
    /\ own = [i \in Stores |-> EmptyDict]
    /\ acted = {}
    /\ last = [store |-> "A", op |-> "none", key |-> <<>>, arg |-> None,
               raised |-> "none", ret |-> None]

InitSameBucket ==
    /\ SameBucketInit /\ StoreInit /\ ListenParked /\ ProbeParked /\ BrokerParked
    /\ SerParked /\ LifeParked /\ TwinParked /\ ConnParked /\ PairParked /\ FacadeParked
    /\ IterParked

SpecSameBucket == InitSameBucket /\ [][BucketNext]_vars

InitTwin ==
    /\ TwinInit /\ StoreInit /\ ListenParked /\ ProbeParked /\ BrokerParked
    /\ BucketParked /\ SerParked /\ LifeParked /\ ConnParked /\ PairParked /\ FacadeParked
    /\ IterParked

SpecTwin == InitTwin /\ [][TwinNext]_vars

InitConn ==
    /\ ConnInit /\ StoreInit /\ ListenParked /\ ProbeParked /\ BrokerParked
    /\ BucketParked /\ SerParked /\ LifeParked /\ TwinParked /\ PairParked /\ FacadeParked
    /\ IterParked

SpecConn == InitConn /\ [][ConnNext]_vars

InitFacade ==
    /\ FacadeInit /\ StoreInit /\ ListenParked /\ ProbeParked /\ BrokerParked
    /\ BucketParked /\ SerParked /\ LifeParked /\ TwinParked /\ ConnParked /\ PairParked
    /\ IterParked

SpecFacade == InitFacade /\ [][FacadeNext]_vars

InitIter ==
    /\ IterInit /\ StoreInit /\ ListenParked /\ ProbeParked /\ BrokerParked
    /\ BucketParked /\ SerParked /\ LifeParked /\ TwinParked /\ ConnParked /\ PairParked
    /\ FacadeParked

SpecIter == InitIter /\ [][ItemsNext]_vars

InitPair ==
    /\ PairInit /\ StoreInit /\ ListenParked /\ ProbeParked /\ BrokerParked
    /\ BucketParked /\ SerParked /\ LifeParked /\ TwinParked /\ ConnParked /\ FacadeParked
    /\ IterParked

SpecPair == InitPair /\ [][PairNext]_vars

InitSerializer ==
    /\ SerInit /\ StoreInit /\ ListenParked /\ ProbeParked /\ BrokerParked
    /\ BucketParked /\ LifeParked /\ TwinParked /\ ConnParked /\ PairParked /\ FacadeParked
    /\ IterParked

SpecSerializer == InitSerializer /\ [][SerNext]_vars

InitLifecycle ==
    /\ LifeInit /\ StoreInit /\ ListenParked /\ ProbeParked /\ BrokerParked
    /\ BucketParked /\ SerParked /\ TwinParked /\ ConnParked /\ PairParked /\ FacadeParked
    /\ IterParked

SpecLifecycle == InitLifecycle /\ [][LifeNext]_vars

\* the threads run: a server thread gets to its bind, the start loop wakes up
\* from time.sleep(1), and stop() runs on
SpecLifecycleLive ==
    /\ SpecLifecycle
    /\ WF_vars(\E t \in 1..Len(threads) : ServeBinds(t))
    /\ WF_vars(RedisStartTurn)
    /\ WF_vars(RedisStopClosePubsub)
    /\ WF_vars(RedisStopCloseClient)

(***************************************************************************)
(* C1.  On one SharedMemory instance, two setdefault calls on the same     *)
(* key that was absent when each began, with no other write to the key in  *)
(* between, return the same value, that value is one of the two            *)
(* arguments, and it is the value stored under the key.                    *)
(***************************************************************************)
SetdefaultPairs ==
    {pq \in Callers \X Callers :
        /\ pq[1] # pq[2]
        /\ call[pq[1]].op = "setdefault" /\ call[pq[2]].op = "setdefault"
        /\ call[pq[1]].done /\ call[pq[2]].done
        /\ call[pq[1]].key = call[pq[2]].key
        /\ call[pq[1]].absent0 /\ call[pq[2]].absent0
        /\ ~call[pq[1]].dirty /\ ~call[pq[2]].dirty}

OneWinner(p, q) ==
    /\ call[p].ret = call[q].ret
    /\ call[p].ret \in {call[p].value, call[q].value}
    /\ has_key(store, _key(call[p].key))
    /\ loads(store[_key(call[p].key)]) = call[p].ret

C1_LocalSetdefaultOneWinner ==
    \A pq \in SetdefaultPairs : OneWinner(pq[1], pq[2])

(***************************************************************************)
(* C2.  On RedisSharedMemory the same holds, and a setdefault never writes *)
(* over a value that is stored under the key when it writes.               *)
(***************************************************************************)
NeverOverwrites ==
    \A p \in Callers : call[p].op = "setdefault" => ~call[p].overwrote

C2_RedisSetdefaultAtomic ==
    /\ \A pq \in SetdefaultPairs : OneWinner(pq[1], pq[2])
    /\ NeverOverwrites

(***************************************************************************)
(* C3.  As claimed: in listen() of either backend, every inbound data      *)
(* message on channel ch invokes all the callbacks registered for ch, in   *)
(* registration order, each with the message, and no other callback.       *)
(***************************************************************************)
\* the step in which listen() consumes the data message m published on ch
Consumes(ch, m) ==
    /\ lpc = "listening"
    /\ inq # <<>>
    /\ Head(inq) = (IF kind = "ws" THEN BroadcastFrame(ch, m) ELSE RedisMessage(ch, m))
    /\ inq' = Tail(inq)

Registered(ch) == IF ch \in DOMAIN callbacks THEN callbacks[ch] ELSE <<>>

InFlight(m) ==
    \E c \in Conns :
        \/ bc[c].on /\ bc[c].msg = m
        \/ \E i \in 1..Len(c2s[c]) :
              /\ ~IsText(c2s[c][i])
              /\ pickle_loads(c2s[c][i]).type = "publish"
              /\ pickle_loads(c2s[c][i]).message = m

Delivered(a, m) ==
    \E i \in 1..Len(s2c[a]), ch \in Channels : s2c[a][i] = BroadcastFrame(ch, m)

C4_SubscribedBeforePublishDelivered ==
    \A p \in owed :
        (~InFlight(p[2]) /\ cst[p[1]] = "open") => Delivered(p[1], p[2])

(***************************************************************************)
(* C5.  When a broadcast ends, a send has been made to every connection    *)
(* that was subscribed to the channel when the publish frame was taken and *)
(* is still subscribed and open, and to no connection that was not         *)
(* subscribed to the channel.                                              *)
(***************************************************************************)
BroadcastEnds(c) == bc[c].on /\ ~bc'[c].on

\* the connections the broadcast of c has made a send to, the one it awaits included
SendsMade(c) == bc[c].att \cup bc[c].failed \cup {bc[c].target}

\* the connections subscribed when the broadcast of c began that are
\* subscribed and open when it ends
StillSubscribed(c) ==
    {d \in bc[c].subs0 : d \in Subscribed(entries', chans', bc[c].ch) /\ cst'[d] = "open"}

C5_BroadcastToExactlySubscribed ==
    [][\A c \in Conns :
          BroadcastEnds(c) =>
              /\ StillSubscribed(c) \subseteq SendsMade(c)
              /\ SendsMade(c) \subseteq bc[c].subs]_vars

(***************************************************************************)
(* C6.  A broadcast in which a send failed, run for a publisher that is    *)
(* still connected, still makes a send to every remaining subscribed       *)
(* connection and returns to its handler, which goes on reading the        *)
(* publisher's frames on a connection left open.                           *)
(***************************************************************************)
C6_SendFailureContained ==
    [][\A c \in Conns :
          (BroadcastEnds(c) /\ cst[c] = "open" /\ (bc[c].failed # {} \/ nLogged' > nLogged)) =>
              /\ hpc'[c] = "recv"
              /\ hres'[c] = "none"
              /\ cst'[c] = cst[c]
              /\ StillSubscribed(c) \subseteq SendsMade(c)]_vars

(***************************************************************************)
(* C7.  A send that never completes holds up neither the other subscribed  *)
(* connections nor the publisher: while the handler of c waits on a stuck  *)
(* subscriber and has work left (a frame to read, or a healthy subscribed  *)
(* connection not yet sent to), that handler can take a step.              *)
(***************************************************************************)
WorkLeft(c) ==
    \/ c2s[c] # <<>>
    \/ \E d \in Subscribed(entries, chans, bc[c].ch) \ SendsMade(c) : cst[d] = "open"

C7_StuckSubscriberDoesNotStall ==
    \A c \in Conns :
        (hpc[c] = "stalled" /\ cst[bc[c].target] = "open" /\ WorkLeft(c))
            => ENABLED (HandlerRecv(c) \/ SendReturns(c))

(***************************************************************************)
(* C8.  Once a read of WebSocketIPC.listen() has failed because the        *)
(* connection is closed, listen() has left its loop.                       *)
(***************************************************************************)
C8_ListenExitsOnClose ==
    (kind = "ws" /\ closedReads > 0) => lpc \in {"returned", "raised"}

(***************************************************************************)
(* C9.  A call of running(), of either class, that met a timeout or a      *)
(* connection error has returned false and has not raised; so has every    *)
(* call made when nothing is reachable at the configured host and port.    *)
(***************************************************************************)
Unreachable == peer \in {"no_such_host", "port_closed", "no_route"}

C9_RunningFalseNeverRaises ==
    (ppc = "idle" /\ nProbe > 0 /\ (perr # "none" \/ Unreachable)) => presult = "false"

(***************************************************************************)
(* C10.  A call of WebSocketIPC.running() is never blocked for good: while *)
(* it has not returned, the call or the peer it waits for can take a step. *)
(***************************************************************************)
C10_RunningReturns ==
    (pkind = "ws" /\ ppc # "idle") => ENABLED ProbeNext

(***************************************************************************)
(* C11.  The broker's handler answers a ping frame with its identity       *)
(* string when the payload of the frame is that string, and sends nothing  *)
(* when it is not; running() returns true only on reading a reply equal to *)
(* the identity string.                                                    *)
(***************************************************************************)
BrokerTakesPing ==
    peer \in {"broker", "broker_main"} /\ pin # <<>> /\ pin' = Tail(pin) /\ ppc' = ppc

C11_PingEchoedIffIdentity ==
    [][/\ BrokerTakesPing =>
             pout' = IF pickle_loads(Head(pin)).message = BrokerIdentity(peer)
                     THEN Append(pout, TextFrame(BrokerIdentity(peer)))
                     ELSE pout
       /\ (pkind = "ws" /\ presult' = "true" /\ ppc # "idle") =>
             (ppc = "recv" /\ pout # <<>> /\ Head(pout) = TextFrame(OwnIdentity))]_vars

\* running() has returned true after the broker answered its ping
C11_Witness ==
    pkind = "ws" /\ peer = "broker" /\ ppc = "idle" /\ presult = "true"

(***************************************************************************)
(* C12.  With two stores of one backend on distinct buckets, what a store  *)
(* reads under a key (get, the strict accessor, the membership test) is    *)
(* what its own operations alone have left under that key, whatever the    *)
(* other store has done.                                                   *)
(***************************************************************************)
BothBucketed == \A i \in Stores : bkt[i] # <<>>

ReadsOwn(i, k) ==
    IF k \in DOMAIN own[i]
    THEN /\ \A d \in Defaults : StoreGet(i, k, d).ret = own[i][k]
         /\ StoreGetitem(i, k).raised = "none"
         /\ StoreGetitem(i, k).ret = own[i][k]
         /\ StoreContains(i, k).ret
    ELSE /\ \A d \in Defaults : StoreGet(i, k, d).ret = d
         /\ StoreGetitem(i, k).raised = "KeyError"
         /\ ~StoreContains(i, k).ret

C12_BucketIsolation ==
    BothBucketed => \A i \in Stores, k \in UserKeys : ReadsOwn(i, k)

(***************************************************************************)
(* C13.  keys(), values() and items() of a store yield exactly the         *)
(* entries stored through that store and still present, under the keys     *)
(* they were stored with, and nothing stored through the other bucket.     *)
(***************************************************************************)
C13_IterationWithinBucket ==
    BothBucketed =>
        \A i \in Stores :
            /\ StoreKeys(i) = DOMAIN own[i]
            /\ StoreItems(i) = {<<k, own[i][k]>> : k \in DOMAIN own[i]}
            /\ StoreValues(i) = {own[i][k] : k \in DOMAIN own[i]}

(***************************************************************************)
(* C14.  clear() of a store that has no bucket raises ValueError and       *)
(* leaves every key space as it was.                                       *)
(***************************************************************************)
ClearStep(i) == last'.op = "clear" /\ last'.store = i /\ last' # last

C14_ClearWithoutBucketFails ==
    [][\A i \in Stores :
          (ClearStep(i) /\ bkt[i] = <<>>) =>
              (last'.raised = "ValueError" /\ space' = space)]_vars

\* a store without bucket, on a key space that holds keys, has called clear()
C14_Witness ==
    /\ last.op = "clear"
    /\ bkt[last.store] = <<>>
    /\ last.raised = "ValueError"
    /\ DOMAIN space[SpaceOf(last.store)] # {}

(***************************************************************************)
(* C15.  clear() of a store with a bucket removes every key stored through *)
(* that store and leaves every key stored through the other bucket, with   *)
(* its value.                                                              *)
(***************************************************************************)
FullKey(i, k) == BucketPrefix(bkt[i]) \o k

C15_ClearOnlyOwnBucket ==
    [][\A i \in Stores :
          (ClearStep(i) /\ BothBucketed) =>
              /\ \A k \in DOMAIN own[i] : ~has_key(space'[SpaceOf(i)], FullKey(i, k))
              /\ \A j \in Stores \ {i} : \A k \in DOMAIN own[j] :
                    /\ has_key(space[SpaceOf(j)], FullKey(j, k))
                          => has_key(space'[SpaceOf(j)], FullKey(j, k))
                    /\ kv_get(space'[SpaceOf(j)], FullKey(j, k))
                          = kv_get(space[SpaceOf(j)], FullKey(j, k))]_vars

(***************************************************************************)
(* C16.  While one instance alone uses its store, get(k, d) gives the      *)
(* value of the latest set of k that no later delete, pop or clear took    *)
(* away, and d when there is none: a set replaces the value of its key, a  *)
(* delete of an absent key changes nothing, and neither touches the other  *)
(* keys.                                                                   *)
(***************************************************************************)
GetFollowsOwn(i, sp, o) ==
    \A k \in UserKeys, d \in Defaults :
        StoreGetOp(sp, bkt[i], k, d).ret = IF k \in DOMAIN o THEN o[k] ELSE d

C16_GetReturnsLatestSet ==
    [][\A i \in Stores :
          acted' \subseteq {i} =>
              /\ GetFollowsOwn(i, space'[SpaceOf(i)], own'[i])
              /\ \A k \in UserKeys :
                    (StoreDelete(i, k) /\ ~StoreContains(i, k).ret) => space' = space
              /\ \A k \in UserKeys, v \in Values :
                    (StoreSet(i, k, v) \/ StoreDelete(i, k)) =>
                        \A k2 \in UserKeys \ {k}, d \in Defaults :
                            StoreGetOp(space'[SpaceOf(i)], bkt[i], k2, d).ret
                                = StoreGetOp(space[SpaceOf(i)], bkt[i], k2, d).ret]_vars

\* alone, A has set "k" twice and then deleted the other key it had set
C16_Witness ==
    /\ acted = {"A"} /\ last.op = "delete" /\ last.key = <<"b", ":", "k">>
    /\ DOMAIN own["A"] = {<<"k">>}
    /\ StoreGet("A", <<"k">>, "d").ret = "v2"
    /\ StoreGet("A", <<"b", ":", "k">>, "d").ret = "d"

(***************************************************************************)
(* C17.  A get(key, default) that has returned gave a value that can be    *)
(* stored under a key or the default of its caller, whatever the other     *)
(* callers did meanwhile.                                                  *)
(***************************************************************************)
C17_GetValueOrDefault ==
    \A p \in Callers :
        (call[p].op = "get" /\ call[p].done) =>
            call[p].ret \in Values \cup {call[p].default}

(***************************************************************************)
(* C18.  While one instance alone uses its store, setdefault(k, v) on an   *)
(* absent key stores v and returns v, and on a present key returns the     *)
(* value the key holds and leaves the store as it was.                     *)
(***************************************************************************)
C18_SetdefaultSequential ==
    [][\A i \in Stores, k \in UserKeys, v \in Values :
          (acted' \subseteq {i} /\ StoreSetdefault(i, k, v)) =>
              /\ last'.raised = "none"
              /\ IF StoreContains(i, k).ret
                 THEN /\ last'.ret = StoreGet(i, k, None).ret
                      /\ space' = space
                 ELSE /\ last'.ret = v
                      /\ StoreGetOp(space'[SpaceOf(i)], bkt[i], k, None).ret = v
                      /\ \A k2 \in UserKeys \ {k} :
                            StoreGetOp(space'[SpaceOf(i)], bkt[i], k2, None).ret
                                = StoreGet(i, k2, None).ret]_vars

\* alone, A has called setdefault with "v2" on a key that held "v1"
C18_Witness ==
    /\ acted = {"A"} /\ last.op = "setdefault" /\ last.arg = "v2" /\ last.ret = "v1"
    /\ StoreGet("A", last.key, "d").ret = "v1"

(***************************************************************************)
(* C19.  A store[key] that has ended either raised KeyError or returned a  *)
(* decoded value that can be stored under a key.                           *)
(***************************************************************************)
C19_GetitemValueOrKeyError ==
    \A p \in Callers :
        (call[p].op = "getitem" /\ call[p].done) =>
            \/ call[p].raised = "KeyError"
            \/ call[p].ret \in Values

(***************************************************************************)
(* C20.  Of two RedisSharedMemory.pop calls on one key that held a value   *)
(* when each began, with no set or delete of the key by anyone meanwhile,  *)
(* exactly one returns a stored value and the other returns its default.   *)
(***************************************************************************)
PopPairs ==
    {pq \in Callers \X Callers :
        /\ pq[1] # pq[2]
        /\ call[pq[1]].op = "pop" /\ call[pq[2]].op = "pop"
        /\ call[pq[1]].done /\ call[pq[2]].done
        /\ call[pq[1]].key = call[pq[2]].key
        /\ call[pq[1]].present0 /\ call[pq[2]].present0
        /\ ~call[pq[1]].dirty /\ ~call[pq[2]].dirty}

C20_ConcurrentPopOneWinner ==
    \A pq \in PopPairs :
        \/ call[pq[1]].ret \in Values /\ call[pq[2]].ret = call[pq[2]].default
        \/ call[pq[2]].ret \in Values /\ call[pq[1]].ret = call[pq[1]].default

(***************************************************************************)
(* C21.  On a SharedMemory instance, scan_iter(pattern) yields exactly the *)
(* keys the instance holds whose name without the bucket prefix matches    *)
(* the glob pattern, each without the prefix, and scan_iter() yields every *)
(* key the instance holds.                                                 *)
(***************************************************************************)
C21_LocalScanIterMatchesPattern ==
    bkind = "local" =>
        \A i \in {j \in Stores : bkt[j] # <<>>} :
            /\ StoreKeys(i) = DOMAIN own[i]
            /\ \A m \in Patterns :
                  StoreScanIter(i, m) = {k \in DOMAIN own[i] : GlobMatch(m, k)}

(***************************************************************************)
(* C22.  No operation the Facade passes on to its store, of either kind,   *)
(* ends in the error of a method the store class does not define.          *)
(***************************************************************************)
C22_FacadeOpsOnBothBackends ==
    last.op \in FacadeOps => last.raised # "AttributeError"

(***************************************************************************)
(* C23.  With the default compression level, loads of what dumps returned *)
(* for a value, called with the same supported method in the same          *)
(* environment, returns that value.                                        *)
(***************************************************************************)
RoundTrip ==
    /\ enc.op = "dumps" /\ dec.op = "loads"
    /\ enc.method \in CompressionMethods /\ dec.method = enc.method
    /\ enc.out.raised = "none" /\ dec.data = enc.out.ret

LibraryAbsent(m) == m \in CompressionMethods \ {None} /\ LibraryOf(m) \notin installed

C24_FallbackWhenLibraryAbsent ==
    (enc.op = "dumps" /\ LibraryAbsent(enc.method)) =>
        /\ enc.out = SerOutcome("none", pickle_dumps(enc.value), TRUE)
        /\ RoundTrip => dec.out = SerOutcome("none", [val |-> enc.value], TRUE)

\* a round trip with "lz4" where blosc is not installed
C24_Witness ==
    /\ RoundTrip /\ enc.method = "lz4" /\ "blosc" \notin installed
    /\ dec.out.ret = [val |-> enc.value] /\ dec.out.warned

(***************************************************************************)
(* C25.  loads of empty bytes returns empty bytes and loads of None        *)
(* returns None, whatever the supported method.                            *)
(***************************************************************************)
C25_EmptyAndNoneUnchanged ==
    (dec.op = "loads" /\ dec.method \in CompressionMethods
        /\ dec.data \in {NoData, EmptyBytes}) =>
            (dec.out.raised = "none" /\ dec.out.ret = dec.data)

\* loads(b"", "zip") has returned b""
C25_Witness ==
    /\ dec.op = "loads" /\ dec.method = "zip" /\ "zipfile" \in installed
    /\ dec.data = EmptyBytes /\ dec.out.ret = EmptyBytes

(***************************************************************************)
(* C26.  With assert statements executed, dumps and loads called with a    *)
(* method outside the supported set raise AssertionError whatever the      *)
(* data, and return nothing.                                               *)
(***************************************************************************)
C26_UnknownMethodAsserts ==
    /\ (enc.op = "dumps" /\ enc.method \notin CompressionMethods) =>
           enc.out = SerOutcome("AssertionError", NoData, FALSE)
    /\ (dec.op = "loads" /\ dec.method \notin CompressionMethods) =>
           dec.out = SerOutcome("AssertionError", NoData, FALSE)

\* loads(None, "invalid_method") has raised, after a dumps that raised too
C26_Witness ==
    /\ enc.op = "dumps" /\ enc.method = "invalid_method"
    /\ dec.op = "loads" /\ dec.method = "invalid_method" /\ dec.data = NoData
    /\ dec.out.raised = "AssertionError"

(***************************************************************************)
(* C27.  As claimed: the subscribe calls made so far are all in the        *)
(* callback lists, those of one channel in call order, and every inbound   *)
(* data message on ch invokes each callback registered for ch exactly      *)
(* once.                                                                   *)
(***************************************************************************)
\* callbacks are numbered by the subscribe calls, so call order is increasing
Accumulated ==
    /\ Len(Registered("ch")) + Len(Registered("other")) = nSub
    /\ \A ch \in Channels : \A i, j \in 1..Len(Registered(ch)) :
          i < j => Registered(ch)[i] < Registered(ch)[j]

TimesInvoked(cb, calls) == Cardinality({j \in 1..Len(calls) : calls[j].cb = cb})

RedisConsumes ==
    kind = "redis" /\ lpc = "listening" /\ inq # <<>> /\ inq' = Tail(inq)

Serving == {t \in 1..Len(threads) : threads[t] = "serving"}

Settled == ipc = "idle" /\ \A t \in 1..Len(threads) : threads[t] # "starting"

C30_StopClosesAndEndsStart ==
    /\ [](stpc = "done" => (pubsubClosed /\ clientClosed))
    /\ (rpc = "sleep" /\ stpc # "off") ~> (rpc = "returned")

\* stop() was called while the loop was running, and both have returned
C30_Witness ==
    wasLooping /\ stpc = "done" /\ rpc = "returned" /\ pubsubClosed /\ clientClosed

(***************************************************************************)
(* C31.  A value set under a key through one SharedMemory instance is what *)
(* get of that key returns through every SharedMemory instance made with   *)
(* the same bucket.                                                        *)
(***************************************************************************)
C31_LocalStoreShared ==
    (bkind = "local" /\ last.op = "set") =>
        \A j \in Stores, d \in Defaults : StoreGet(j, last.key, d).ret = last.arg

(***************************************************************************)
(* C32.  Given the same callbacks and the same messages, the listen() of   *)
(* WebSocketIPC and the listen() of RedisIPC have made the same calls for  *)
(* the last message and are both still listening or have both stopped.     *)
(***************************************************************************)
C32_ListenersDispatchAlike == wsl = rdl

(***************************************************************************)
(* C33.  A broadcast during which a connection was accepted or a handler   *)
(* ended (self.clients has changed size while the broadcast was suspended  *)
(* in a send), run for a publisher that is still connected, makes a send   *)
(* to every remaining subscribed connection and returns to its handler,    *)
(* which goes on reading on a connection left open.                        *)
(***************************************************************************)
ClientsChanged(c) == bc[c].on /\ Used(entries) # bc[c].used0

C33_BroadcastSurvivesAcceptAndClose ==
    [][\A c \in Conns :
          (BroadcastEnds(c) /\ ClientsChanged(c) /\ cst[c] = "open") =>
              /\ hpc'[c] = "recv"
              /\ hres'[c] = "none"
              /\ cst'[c] = "open"
              /\ StillSubscribed(c) \subseteq SendsMade(c)]_vars

(***************************************************************************)
(* C34.  self.clients holds exactly the connections whose handler is       *)
(* running.  The channel set of a connection is empty when its entry is    *)
(* made, changes only when the handler reads a subscribe frame on that     *)
(* connection, by the channel of the frame, and goes with the entry when   *)
(* the handler ends; the broker sends nothing on a connection that has no  *)
(* entry.                                                                  *)
(***************************************************************************)
Table == {c \in Conns : \E i \in 1..Len(entries) : entries[i] = c}

ActiveHandlers == {c \in Conns : hpc[c] \in {"recv", "send", "stalled"}}

ReadsSubscribe(c) ==
    /\ c2s[c] # <<>>
    /\ c2s'[c] = Tail(c2s[c])
    /\ ~IsText(Head(c2s[c]))
    /\ pickle_loads(Head(c2s[c])).type = "subscribe"
    /\ chans'[c] = chans[c] \cup {pickle_loads(Head(c2s[c])).channel}

C34_ClientTableAndChannelSets ==
    /\ [](Table = ActiveHandlers /\ \A c \in Conns \ Table : chans[c] = {})
    /\ [][\A c \in Conns :
             /\ (c \notin Table /\ c \in Table') => chans'[c] = {}
             /\ (c \in Table /\ c \in Table' /\ chans'[c] # chans[c]) => ReadsSubscribe(c)
             /\ Len(s2c'[c]) > Len(s2c[c]) => c \in Table]_vars

\* a connection is subscribed after its publish, ping or text frames and
\* those of another connection were read, and a connection that closed has
\* left the table
C34_Witness ==
    /\ \E c \in Conns : chans[c] = {"ch"} /\ c \in Table
    /\ \E c \in Conns : hres[c] = "closed" /\ c \notin Table
    /\ nOther >= 1
    /\ \A c \in Conns : c2s[c] = <<>>

(***************************************************************************)
(* C35.  The frames a connection receives carry the messages of one        *)
(* publisher on one channel in the order in which that publisher sent      *)
(* them: a later message never comes before an earlier one, and a          *)
(* connection that was subscribed when the broker took the earlier message *)
(* and has received the later one has received the earlier one.            *)
(***************************************************************************)
\* the messages of the broadcast frames connection t has received, in order
Received(t) ==
    LET fs == SelectSeq(s2c[t], LAMBDA f : ~IsText(f))
    IN  [i \in 1..Len(fs) |-> pickle_loads(fs[i]).message]

SamePublisher(m1, m2) == pubs[m1].by = pubs[m2].by /\ pubs[m1].ch = pubs[m2].ch

C35_PerPublisherOrder ==
    \A t \in Conns :
        LET r == Received(t)
        IN  /\ \A i, j \in 1..Len(r) :
                  (i < j /\ SamePublisher(r[i], r[j])) => r[i] < r[j]
            /\ \A j \in 1..Len(r), m1 \in 1..Len(pubs) :
                  (m1 < r[j] /\ SamePublisher(m1, r[j]) /\ t \in pubs[m1].subs) =>
                      \E i \in 1..(j - 1) : r[i] = m1

\* a connection has received two messages of one publisher while another
\* connection published in between
C35_Witness ==
    \E t \in Conns :
        /\ Len(Received(t)) >= 2
        /\ SamePublisher(Received(t)[1], Received(t)[Len(Received(t))])
        /\ \E m \in 1..Len(pubs) :
              /\ Received(t)[1] < m /\ m < Received(t)[Len(Received(t))]
              /\ pubs[m].by # pubs[Received(t)[1]].by

(***************************************************************************)
(* C36.  A client instance opens at most one connection, and the           *)
(* connections on which it has sent subscribe and publish frames and on    *)
(* which listen() reads are one and the same.                              *)
(***************************************************************************)
C36_OneConnectionPerClient ==
    /\ nOpened <= 1
    /\ Cardinality(subOn \cup pubOn \cup readOn) <= 1

(***************************************************************************)
(* C37.  Of two SharedMemory.pop calls on one key by two callers of one    *)
(* instance, the key holding a value when the first began and nobody       *)
(* setting or deleting it since, exactly one returns the stored value, the *)
(* other returns None, and the key is absent.                              *)
(***************************************************************************)
LocalPopPairs ==
    {pq \in Callers \X Callers :
        /\ pq[1] # pq[2]
        /\ call[pq[1]].op = "pop" /\ call[pq[2]].op = "pop"
        /\ call[pq[1]].done /\ call[pq[2]].done
        /\ call[pq[1]].key = call[pq[2]].key
        /\ call[pq[1]].present0
        /\ ~call[pq[1]].dirty /\ ~call[pq[2]].dirty}

C37_LocalPopAtomic ==
    \A pq \in LocalPopPairs :
        /\ call[pq[1]].ret \in Values
        /\ call[pq[2]].ret = None
        /\ ~has_key(store, _key(call[pq[1]].key))

\* both callers have popped "x", set once: one got the value, the other None
C37_Witness ==
    /\ LocalPopPairs # {}
    /\ \A p \in Callers : call[p].op = "pop" /\ call[p].key = <<"x">>
    /\ {call[p].ret : p \in Callers} = {"v1", None}

(***************************************************************************)
(* C39.  A callback is given a message only if it was subscribed through   *)
(* an IPC object of the publisher's bucket, and with the channel name the  *)
(* message was published on.                                               *)
(***************************************************************************)
C39_ChannelsIsolatedByBucket ==
    \A d \in fdel : /\ fbkt[d.to] = fbkt[d.by]
                     /\ fsub[d.cb].ch = d.on

(***************************************************************************)
(* C38.  After the same calls by one caller on one bucket, starting from   *)
(* nothing, the SharedMemory and the RedisSharedMemory instance have       *)
(* returned or raised the same at the last call and hold the same keys     *)
(* with the same data.                                                     *)
(***************************************************************************)
C38_BackendsIndistinguishable ==
    /\ lres.raised = rres.raised
    /\ lres.ret = rres.ret
    /\ lsp = rsp

(***************************************************************************)
(* C40.  Every pair (k, v) that a running items() iteration has yielded    *)
(* carries a value that was stored under k at some moment of the           *)
(* iteration, whatever the other caller set or deleted meanwhile.          *)
(***************************************************************************)
C40_ItemsYieldStoredValues ==
    \A y \in iyielded : y.value \in iheld[y.key]

====
